---- MODULE Spec2Model ----
(***************************************************************************)
(* Call signaling and media engine of the LAN messenger                    *)
(* (src/voicevideo_handler.py, class VoiceVideoHandler).                   *)
(*                                                                         *)
(* Every host runs one VoiceVideoHandler.  Its threads are                 *)
(*   - the control thread (_control_server): takes control datagrams off   *)
(*     the control socket and runs _handle_call_control on each; the       *)
(*     handler blocks on input() at the accept prompt and, during a call,  *)
(*     inside the loop at the end of _start_media_streams;                 *)
(*   - the media threads started by _start_media_streams (_send_audio,     *)
(*     _receive_audio, _send_video, _receive_video);                       *)
(*   - the thread of the local user interface (src/main.py), which calls   *)
(*     make_call; end_call is called from the call control loop and from   *)
(*     _receive_video, when q is pressed in the video window.              *)
(* A handler that does not block is one atomic action; a handler that      *)
(* blocks is cut at the blocking call (input(), recvfrom()).               *)
(*                                                                         *)
(* The peer registry of the messenger (src/main.py, class LANMessenger:    *)
(* the peers table, _listen_for_peers, _prune_inactive_peers; and          *)
(* src/peer_discovery.py, PeerDiscovery.get_active_peers) is the second    *)
(* part of the module, with a specification of its own, SpecRegistry.      *)
(*                                                                         *)
(* The message transport of the messenger (src/main.py: _start_server,     *)
(* _handle_client, send_message, send_file_to_peer, make_voice_call,       *)
(* make_video_call; src/message_handler.py: MessageHandler.save_message;   *)
(* src/client.py: LANClient.send_message) is the third part, with the      *)
(* specification SpecTransport.                                            *)
(*                                                                         *)
(* The framing of the transport (src/main.py: _recv_all, _send_with_length *)
(* and the read side of _handle_client, with json.dumps, json.loads,       *)
(* base64.b64encode and base64.b64decode as the code uses them) is the     *)
(* fourth part, with the specification SpecFraming, whose initial states   *)
(* draw the stream, the declared length and the envelope.                  *)
(*                                                                         *)
(* The three services of a host that take input from the network (the      *)
(* discovery listener, the TCP server with its handler threads, the call   *)
(* control server) are run together on valid and on malformed input in the *)
(* specification SpecServices.                                             *)
(*                                                                         *)
(* The video path of a call, from the compressed frame of _send_video over *)
(* UDP datagrams that arrive in any order to the bytes _receive_video      *)
(* hands to the decoder, is the specification SpecVideo.                   *)
(*                                                                         *)
(* The control port is a UDP port any host of the LAN can send to.  The    *)
(* specification SpecControl runs the call engine of two hosts with a      *)
(* third host that runs another program and sends control datagrams of its *)
(* own making, some of them with fields missing.                           *)
(*                                                                         *)
(* make_call runs on the thread of the user interface while the control    *)
(* thread runs _handle_call_control.  The specification SpecRace takes     *)
(* make_call one statement at a time, so that the control thread can run   *)
(* between its test of in_call and its assignments.                        *)
(*                                                                         *)
(* The specification SpecLive runs one call between two hosts to its end,  *)
(* stop_server included, under the fairness the threads have: the control  *)
(* thread and the media threads take their next step when they can; what   *)
(* the users type, and when, is not constrained.                           *)
(*                                                                         *)
(* The relay hub exists three times in the source: WebRTCSignalingServer   *)
(* (websocket_server.py), LANServer (server.py) and RTCSignalingHandler    *)
(* (webrtc_signaling.py).  The specification SpecHub starts one of them    *)
(* and runs it with three clients that connect, register, send, lose their *)
(* connection and disconnect.  A handler runs from one await of a message  *)
(* to the next as one step.                                                *)
(***************************************************************************)
EXTENDS Naturals, Sequences, FiniteSets

Nodes == {"A", "B"}
None == "None"
CallTypes == {"audio", "both"}
\* The device whose opening fails in a call setup, if any.
Faults == {"none", "audio_input", "audio_output", "video_capture"}

\* Capacity of a control socket's receive buffer, in datagrams: a datagram
\* sent to a full buffer is lost (UDP).
MaxInbox == 2
\* Number of call_request datagrams the users of all hosts send together.
MaxDials == 2

\* The ports every handler is constructed with (base_port = 13000).
Ports == [audio |-> 13000, video |-> 13001, control |-> 13002]

VARIABLES
    in_call,            \* self.in_call
    is_caller,          \* self.is_caller
    call_peer_ip,       \* self.call_peer_ip
    call_peer_ports,    \* self.call_peer_ports
    current_call_type,  \* self.current_call_type
    audio_input,        \* self.audio_input is open (not None)
    audio_output,       \* self.audio_output is open (not None)
    video_capture,      \* self.video_capture is open (not None)
    audio_socket,       \* self.audio_socket is open (not None)
    video_socket,       \* self.video_socket is open (not None)
    control_queue,      \* datagrams waiting in the control socket's buffer
    control_pc,         \* where the control thread is: recv, prompt, loop
    pending_request,    \* the call_request the accept prompt is about
    streams_call_type,  \* call_type of the _start_media_streams in progress
    threads,            \* the live media threads (a receiver: its port bound)
    spawned,            \* number of _start_media_streams that started threads
    console,            \* the last line the handler printed
    dialed              \* number of call_request datagrams sent so far

sessionVars == <<in_call, is_caller, call_peer_ip, call_peer_ports, current_call_type>>
deviceVars == <<audio_input, audio_output, video_capture, audio_socket, video_socket>>
controlVars == <<control_queue, control_pc, pending_request, streams_call_type>>
mediaVars == <<threads, spawned>>
callVars == <<sessionVars, deviceVars, controlVars, mediaVars, console, dialed>>

(***************************************************************************)
(* The peer registry: state and constants.                                 *)
(***************************************************************************)
\* This host's own address (self.local_ip); Nodes are the other hosts.
Local == "L"
\* A peer is pruned when now - last_seen > PruneAge; the pruning task sleeps
\* PrunePeriod between passes; get_active_peers keeps age < ActiveAge.
PruneAge == 30
PrunePeriod == 10
ActiveAge == 30
\* Time is counted in seconds and advances TickStep at a time, up to MaxTime.
TickStep == 5
MaxTime == 60

VARIABLES
    now,                \* time.time()
    peers,              \* self.peers: ip -> last_seen
    prune_pc,           \* the pruning task: sleep, remove, dead
    inactive_peers,     \* its list inactive_peers, what is left to remove
    next_prune,         \* when its time.sleep(10) returns
    peer_lost           \* the last "has gone offline" line printed

registryVars == <<now, peers, prune_pc, inactive_peers, next_prune, peer_lost>>

(***************************************************************************)
(* The message transport: state and inputs.                                *)
(***************************************************************************)
\* Number of inbound connections and of send or call operations in a run.
MaxConns == 2
MaxSends == 2
Usernames == {"alice"}
Contents == {"hi"}
Filenames == {"a.txt"}
\* What connect and send can end with.
NetOutcomes == {"ok", "refused", "timeout"}

VARIABLES
    connections,        \* the inbound TCP connections, in order of arrival
    messages,           \* the messages MessageHandler.save_message recorded
    files,              \* data/files: filename -> bytes written
    server_console,     \* the last line _handle_client printed
    outbox,             \* the network I/O the send and call operations did
    send_result         \* how the last send or call operation ended

transportVars == <<connections, messages, files, server_console, outbox, send_result>>

(***************************************************************************)
(* The framing: state and inputs.                                          *)
(***************************************************************************)
\* Longest stream given to _recv_all, and the bytes it is made of.
MaxStream == 3
Bytes == {"x", "y"}
\* Longest text message and longest file given in full to the senders.
MaxText == 2
MaxFile == 3
\* The width of the length header.
HeaderWidth == 8

VARIABLES
    stream,             \* the bytes the peer sends before it closes
    length,             \* the length _recv_all is called with
    sock,               \* the bytes of stream not yet returned by recv
    data,               \* the local data of _recv_all
    recv_calls,         \* the number of calls of sock.recv made
    recv_pc,            \* "loop", "returned" or "EOFError"
    request,            \* what send_message or send_file_to_peer is given
    envelope,           \* the dict the sender gives to json.dumps
    frame,              \* the bytes _send_with_length gives to sendall
    decoded,            \* what _handle_client makes of the frame
    frame_pc            \* "idle", "send", "receive" or "done"

recvVars == <<stream, length, sock, data, recv_calls, recv_pc>>
frameVars == <<request, envelope, frame, decoded, frame_pc>>
framingVars == <<recvVars, frameVars>>

(***************************************************************************)
(* The services: state.                                                    *)
(***************************************************************************)
VARIABLES
    listen_pc           \* the discovery listener: "recv" in its loop, "closed"

serviceVars == <<listen_pc>>

(***************************************************************************)
(* The video path: state.                                                  *)
(***************************************************************************)
VARIABLES
    video_pc,           \* _send_video: "read", "chunks" (in the for loop), "sleep"
    frame_data,         \* the compressed frame being sent
    chunk_i,            \* the loop variable i of the for loop
    frames_read,        \* frames read from the camera so far
    sent,               \* the datagrams of the current frame, in order of sendto
    video_net,          \* the datagrams on their way to the receiver
    frame_buffer,       \* frame_buffer[addr] of _receive_video: offset -> chunk
    decoder_input       \* the byte strings given to cv2.imdecode, in order

videoVars == <<video_pc, frame_data, chunk_i, frames_read, sent, video_net,
               frame_buffer, decoder_input>>

(***************************************************************************)
(* The relay hub: state.                                                   *)
(***************************************************************************)
VARIABLES
    hub_impl,           \* the class that was started, None before
    hub_open,           \* the connections whose handler is running
    hub_broken,         \* those of them on which send raises ConnectionClosed
    clients,            \* the hub's map: self.clients, self.peers or
                        \* self.connections, from its key to the connection
    client_id,          \* client_id of each handle_connection (RTCSignalingHandler)
    hub_out,            \* what the last step of a handler sent: {[to, msg]}
    hub_log,            \* what it printed
    hub_failed,         \* the connections on which a send of it raised
    twin,               \* TRUE when the client of c3 runs on the host of c1 and
                        \* registers under the username of c1
    entries,            \* the entries of the hub's map in the order of insertion,
                        \* None where one was deleted (followed while a
                        \* broadcast is suspended)
    bcast               \* the _broadcast_peer_list that is suspended on a send,
                        \* or the outcome of the last one that was followed

hubTaskVars == <<twin, entries, bcast>>
hubVars == <<hub_impl, hub_open, hub_broken, clients, client_id, hub_out, hub_log,
             hub_failed, hubTaskVars>>

(***************************************************************************)
(* The call engine with senders that are not this program: state.          *)
(***************************************************************************)
VARIABLES
    foreign,            \* number of datagrams the foreign host has sent so far
    make_pc,            \* the line of make_call the user interface thread is at
    make_args,          \* the arguments of that make_call: peer_ip, call_type
    running             \* self.running

engineVars == <<foreign, make_pc, make_args, running>>
laterVars == <<serviceVars, videoVars, hubVars, engineVars>>
notCallVars == <<registryVars, transportVars, framingVars, laterVars>>
notRegistryVars == <<callVars, transportVars, framingVars, laterVars>>
notTransportVars == <<callVars, now, prune_pc, inactive_peers, next_prune, peer_lost,
                      framingVars, laterVars>>
notFramingVars == <<callVars, registryVars, transportVars, laterVars>>
vars == <<callVars, registryVars, transportVars, framingVars, laterVars>>

NoResult == [op |-> None, to |-> None, net |-> None, raised |-> FALSE,
             returned |-> None, printed |-> None]
TransportInit ==
    /\ connections = <<>>
    /\ messages = <<>>
    /\ files = [f \in {} |-> None]
    /\ server_console = None
    /\ outbox = {}
    /\ send_result = NoResult

NoLoss == [ip |-> None, last_seen |-> 0, at |-> 0]
RegistryInit ==
    /\ now = 0
    /\ peers = [ip \in {} |-> 0]
    /\ prune_pc = "sleep"
    /\ inactive_peers = {}
    /\ next_prune = 0
    /\ peer_lost = NoLoss

NoMsg == [type |-> None, from |-> None, call_type |-> None, ports |-> None, at |-> None]

(***************************************************************************)
(* The states of the call signaling engine, read off the handler's state.  *)
(* The handler keeps one flag, in_call; Ringing is the control thread      *)
(* waiting at the accept prompt; Calling is a call_request of this host    *)
(* that is still in flight, at the peer's prompt, or answered by a         *)
(* datagram this host has not processed yet.                               *)
(***************************************************************************)
RequestOutstanding(n) ==
    \E m \in Nodes \ {n} :
        \/ \E i \in 1..Len(control_queue[m]) :
              /\ control_queue[m][i].type = "call_request"
              /\ control_queue[m][i].from = n
        \/ control_pc[m] = "prompt" /\ pending_request[m].from = n
        \/ \E i \in 1..Len(control_queue[n]) :
              /\ control_queue[n][i].type \in {"call_accepted", "call_rejected", "busy"}
              /\ control_queue[n][i].from = m

EngineState(n) ==
    IF in_call[n] THEN "InCall"
    ELSE IF control_pc[n] = "prompt" THEN "Ringing"
    ELSE IF RequestOutstanding(n) THEN "Calling"
    ELSE "Idle"

\* A control datagram; "at" records, for a call_request, the engine state of
\* the receiving host at the moment the datagram reaches its socket.
Datagram(type, from, call_type, ports, to) ==
    [type |-> type, from |-> from, call_type |-> call_type, ports |-> ports,
     at |-> IF type = "call_request" /\ to \in Nodes
            THEN EngineState(to) ELSE None]

\* _send_control_message: one datagram to the peer's control port.
_send_control_message(queue, peer_ip, message) ==
    IF peer_ip \in Nodes /\ Len(queue[peer_ip]) < MaxInbox
    THEN [queue EXCEPT ![peer_ip] = Append(@, message)]
    ELSE queue

CallInit ==
    /\ in_call = [n \in Nodes |-> FALSE]
    /\ is_caller = [n \in Nodes |-> FALSE]
    /\ call_peer_ip = [n \in Nodes |-> None]
    /\ call_peer_ports = [n \in Nodes |-> None]
    /\ current_call_type = [n \in Nodes |-> "both"]
    /\ audio_input = [n \in Nodes |-> FALSE]
    /\ audio_output = [n \in Nodes |-> FALSE]
    /\ video_capture = [n \in Nodes |-> FALSE]
    /\ audio_socket = [n \in Nodes |-> FALSE]
    /\ video_socket = [n \in Nodes |-> FALSE]
    /\ control_queue = [n \in Nodes |-> <<>>]
    /\ control_pc = [n \in Nodes |-> "recv"]
    /\ pending_request = [n \in Nodes |-> NoMsg]
    /\ streams_call_type = [n \in Nodes |-> None]
    /\ threads = [n \in Nodes |-> {}]
    /\ spawned = [n \in Nodes |-> 0]
    /\ console = [n \in Nodes |-> None]
    /\ dialed = 0

\* The streams and the lengths _recv_all is run on.
RECURSIVE SeqsUpTo(_, _)
SeqsUpTo(S, n) ==
    IF n = 0 THEN {<<>>}
    ELSE LET shorter == SeqsUpTo(S, n - 1)
         IN  shorter \cup {Append(q, b) : q \in {r \in shorter : Len(r) = n - 1}, b \in S}
Streams == SeqsUpTo(Bytes, MaxStream)
Lengths == 0..(MaxStream + 1)

NoRequest == [op |-> None, username |-> <<>>, body |-> <<>>, filename |-> <<>>]
NoEnvelope == <<>>
NoFrame == [length_header |-> <<>>, json_bytes |-> <<>>]
NoDecoded == [error |-> None, type |-> <<>>, username |-> <<>>, content |-> <<>>,
              filename |-> <<>>, file_data |-> <<>>]

\* No _recv_all and no frame in progress.
FramingIdle ==
    /\ stream = <<>> /\ length = 0 /\ sock = <<>> /\ data = <<>>
    /\ recv_calls = 0 /\ recv_pc = "returned"
    /\ request = NoRequest /\ envelope = NoEnvelope /\ frame = NoFrame
    /\ decoded = NoDecoded /\ frame_pc = "idle"

\* The listener thread is in its loop.
ServiceInit == listen_pc = "recv"
\* No frame has been read; frame_buffer = {} as _receive_video starts.
VideoInit ==
    /\ video_pc = "read"
    /\ frame_data = <<>>
    /\ chunk_i = 0
    /\ frames_read = 0
    /\ sent = <<>>
    /\ video_net = <<>>
    /\ frame_buffer = <<>>
    /\ decoder_input = <<>>
\* No hub is running.
HubConns == {"c1", "c2", "c3"}
NoBroadcast ==
    [pc |-> "idle", by |-> None, origin |-> None, peers |-> {}, started |-> {},
     used |-> 0, len |-> 0, cursor |-> 0, todo |-> <<>>, disconnected |-> {},
     tried |-> {}, raised |-> FALSE]
HubInit ==
    /\ hub_impl = None
    /\ hub_open = {}
    /\ hub_broken = {}
    /\ clients = <<>>
    /\ client_id = [c \in HubConns |-> None]
    /\ hub_out = {}
    /\ hub_log = {}
    /\ hub_failed = {}
    /\ twin = FALSE
    /\ entries = <<>>
    /\ bcast = NoBroadcast
NoArgs == [peer_ip |-> None, call_type |-> None]
EngineInit ==
    /\ foreign = 0
    /\ make_pc = [n \in Nodes |-> "idle"]
    /\ make_args = [n \in Nodes |-> NoArgs]
    /\ running = [n \in Nodes |-> TRUE]
LaterInit == ServiceInit /\ VideoInit /\ HubInit /\ EngineInit

Init ==
    /\ CallInit
    /\ RegistryInit
    /\ TransportInit
    /\ FramingIdle
    /\ LaterInit

\* _end_call without the release of the video socket.
_end_call_leak(n) ==
    /\ in_call' = [in_call EXCEPT ![n] = FALSE]
    /\ audio_input' = [audio_input EXCEPT ![n] = FALSE]
    /\ audio_output' = [audio_output EXCEPT ![n] = FALSE]
    /\ video_capture' = [video_capture EXCEPT ![n] = FALSE]
    /\ audio_socket' = [audio_socket EXCEPT ![n] = FALSE]
    /\ UNCHANGED video_socket
    /\ console' = [console EXCEPT ![n] = "call_ended"]

\* _end_call: clear in_call and release the devices and the send sockets.
_end_call(n) ==
    /\ in_call' = [in_call EXCEPT ![n] = FALSE]
    /\ audio_input' = [audio_input EXCEPT ![n] = FALSE]
    /\ audio_output' = [audio_output EXCEPT ![n] = FALSE]
    /\ video_capture' = [video_capture EXCEPT ![n] = FALSE]
    /\ audio_socket' = [audio_socket EXCEPT ![n] = FALSE]
    /\ video_socket' = [video_socket EXCEPT ![n] = FALSE]
    /\ console' = [console EXCEPT ![n] = "call_ended"]

\* end_call, on the queue `queue`: notify the peer if in a call, then _end_call.
end_call(n, queue) ==
    /\ control_queue' =
          IF in_call[n]
          THEN _send_control_message(queue, call_peer_ip[n],
                   Datagram("call_ended", n, None, None, call_peer_ip[n]))
          ELSE queue
    /\ _end_call(n)

\* make_call without the test of in_call.
make_call_unguarded(n, peer_ip, call_type) ==
    /\ peer_ip # n
    /\ dialed < MaxDials
    /\ dialed' = dialed + 1
    /\ is_caller' = [is_caller EXCEPT ![n] = TRUE]
    /\ call_peer_ip' = [call_peer_ip EXCEPT ![n] = peer_ip]
    /\ current_call_type' = [current_call_type EXCEPT ![n] = call_type]
    /\ control_queue' = _send_control_message(control_queue, peer_ip,
           Datagram("call_request", n, call_type, Ports, peer_ip))
    /\ console' = [console EXCEPT ![n] = "calling"]
    /\ UNCHANGED <<in_call, call_peer_ports, deviceVars, control_pc,
                   pending_request, streams_call_type, mediaVars>>

\* make_call, called by the local user interface.
make_call(n, peer_ip, call_type) ==
    /\ peer_ip # n
    /\ IF in_call[n]
       THEN /\ console' = [console EXCEPT ![n] = "already_in_call"]
            /\ UNCHANGED <<sessionVars, deviceVars, controlVars, mediaVars, dialed>>
       ELSE /\ dialed < MaxDials
            /\ dialed' = dialed + 1
            /\ is_caller' = [is_caller EXCEPT ![n] = TRUE]
            /\ call_peer_ip' = [call_peer_ip EXCEPT ![n] = peer_ip]
            /\ current_call_type' = [current_call_type EXCEPT ![n] = call_type]
            /\ control_queue' = _send_control_message(control_queue, peer_ip,
                   Datagram("call_request", n, call_type, Ports, peer_ip))
            /\ console' = [console EXCEPT ![n] = "calling"]
            /\ UNCHANGED <<in_call, call_peer_ports, deviceVars, control_pc,
                           pending_request, streams_call_type, mediaVars>>

\* The media threads one _start_media_streams starts and that get to their
\* loop: the senders are given the peer's address; a receiver binds this
\* host's port first, which raises, ending the thread, when the socket of a
\* receive thread of an earlier call is still bound to it.
NewThreads(n, peer_ip, call_type) ==
    LET g == spawned[n] + 1
        kinds == IF call_type = "both"
                 THEN {"send_audio", "recv_audio", "send_video", "recv_video"}
                 ELSE {"send_audio", "recv_audio"}
        free(k) == k \in {"send_audio", "send_video"}
                   \/ ~\E t \in threads[n] : t.kind = k
    IN  {[kind |-> k, gen |-> g,
          peer |-> IF k \in {"send_audio", "send_video"} THEN peer_ip ELSE None] :
            k \in {k \in kinds : free(k)}}

\* _start_media_streams, up to the input() of its call control loop.  When
\* audio.open of the microphone or of the speakers fails it raises: the
\* except clause runs _end_call, which releases what was opened, and the
\* function returns.  cv2.VideoCapture(0) on a camera that is missing or busy
\* raises nothing and returns a capture that is not opened, so the setup
\* goes on as with no fault.
_start_media_streams(n, peer_ip, call_type, fault) ==
    IF fault \in {"none", "video_capture"}
    THEN /\ in_call' = [in_call EXCEPT ![n] = TRUE]
         /\ audio_input' = [audio_input EXCEPT ![n] = TRUE]
         /\ audio_output' = [audio_output EXCEPT ![n] = TRUE]
         /\ audio_socket' = [audio_socket EXCEPT ![n] = TRUE]
         /\ video_capture' = [video_capture EXCEPT ![n] = (call_type = "both") \/ @]
         /\ video_socket' = [video_socket EXCEPT ![n] = (call_type = "both") \/ @]
         /\ threads' = [threads EXCEPT ![n] = @ \cup NewThreads(n, peer_ip, call_type)]
         /\ spawned' = [spawned EXCEPT ![n] = @ + 1]
         /\ control_pc' = [control_pc EXCEPT ![n] = "loop"]
         /\ streams_call_type' = [streams_call_type EXCEPT ![n] = call_type]
         /\ console' = [console EXCEPT ![n] = "call_started"]
    ELSE /\ _end_call(n)
         /\ control_pc' = [control_pc EXCEPT ![n] = "recv"]
         /\ streams_call_type' = [streams_call_type EXCEPT ![n] = None]
         /\ UNCHANGED <<threads, spawned>>

\* _handle_call_control on the next datagram of the control socket, run by
\* the control thread (_control_server), up to the point where it blocks.
_handle_call_control(n) ==
    /\ control_pc[n] = "recv"
    /\ UNCHANGED dialed
    /\ control_queue[n] # <<>>
    /\ LET message == Head(control_queue[n])
           rest == [control_queue EXCEPT ![n] = Tail(@)]
       IN  CASE message.type = "call_request" ->
                  IF ~in_call[n]
                  THEN /\ control_queue' = rest
                       /\ control_pc' = [control_pc EXCEPT ![n] = "prompt"]
                       /\ pending_request' = [pending_request EXCEPT ![n] = message]
                       /\ console' = [console EXCEPT ![n] = "incoming_call"]
                       /\ UNCHANGED <<sessionVars, deviceVars, streams_call_type, mediaVars>>
                  ELSE /\ control_queue' = _send_control_message(rest, message.from,
                              Datagram("busy", n, None, None, message.from))
                       /\ UNCHANGED <<sessionVars, deviceVars, control_pc, pending_request,
                                      streams_call_type, mediaVars, console>>
             [] message.type = "call_accepted" ->
                  \E fault \in Faults :
                      /\ control_queue' = rest
                      /\ _start_media_streams(n, message.from, current_call_type[n], fault)
                      /\ UNCHANGED <<is_caller, call_peer_ip, call_peer_ports,
                                     current_call_type, pending_request>>
             [] message.type = "call_rejected" ->
                  /\ control_queue' = rest
                  /\ console' = [console EXCEPT ![n] = "call_rejected"]
                  /\ UNCHANGED <<sessionVars, deviceVars, control_pc, pending_request,
                                 streams_call_type, mediaVars>>
             [] message.type = "call_ended" ->
                  /\ control_queue' = rest
                  /\ _end_call(n)
                  /\ UNCHANGED <<is_caller, call_peer_ip, call_peer_ports, current_call_type,
                                 control_pc, pending_request, streams_call_type, mediaVars>>
             [] message.type = "busy" ->
                  /\ control_queue' = rest
                  /\ console' = [console EXCEPT ![n] = "peer_busy"]
                  /\ UNCHANGED <<sessionVars, deviceVars, control_pc, pending_request,
                                 streams_call_type, mediaVars>>

\* _accept_call and what follows it, once the user answers y at the prompt.
_accept_call(n) ==
    /\ control_pc[n] = "prompt"
    /\ UNCHANGED dialed
    /\ LET message == pending_request[n]
       IN  \E fault \in Faults :
             /\ is_caller' = [is_caller EXCEPT ![n] = FALSE]
             /\ call_peer_ip' = [call_peer_ip EXCEPT ![n] = message.from]
             /\ call_peer_ports' = [call_peer_ports EXCEPT ![n] = message.ports]
             /\ control_queue' = _send_control_message(control_queue, message.from,
                    Datagram("call_accepted", n, None, Ports, message.from))
             /\ pending_request' = [pending_request EXCEPT ![n] = NoMsg]
             /\ _start_media_streams(n, message.from, message.call_type, fault)
             /\ UNCHANGED current_call_type

\* _reject_call, once the user answers anything else at the prompt.
_reject_call(n) ==
    /\ control_pc[n] = "prompt"
    /\ UNCHANGED dialed
    /\ control_queue' = _send_control_message(control_queue, pending_request[n].from,
           Datagram("call_rejected", n, None, None, pending_request[n].from))
    /\ control_pc' = [control_pc EXCEPT ![n] = "recv"]
    /\ pending_request' = [pending_request EXCEPT ![n] = NoMsg]
    /\ UNCHANGED <<sessionVars, deviceVars, streams_call_type, mediaVars, console>>

\* The call control loop of _start_media_streams reads q: end_call, break.
call_loop_quit(n) ==
    /\ control_pc[n] = "loop"
    /\ UNCHANGED dialed
    /\ end_call(n, control_queue)
    /\ control_pc' = [control_pc EXCEPT ![n] = "recv"]
    /\ streams_call_type' = [streams_call_type EXCEPT ![n] = None]
    /\ UNCHANGED <<is_caller, call_peer_ip, call_peer_ports, current_call_type,
                   pending_request, mediaVars>>

\* The call control loop reads any other line and tests in_call again.
call_loop_other(n) ==
    /\ control_pc[n] = "loop"
    /\ UNCHANGED dialed
    /\ ~in_call[n]
    /\ control_pc' = [control_pc EXCEPT ![n] = "recv"]
    /\ streams_call_type' = [streams_call_type EXCEPT ![n] = None]
    /\ UNCHANGED <<sessionVars, deviceVars, control_queue, pending_request, mediaVars, console>>

\* One turn of the loop of _receive_audio at host n, run by the thread that
\* has bound the audio port, when recvfrom returns a datagram: the datagram
\* is played if in_call, then in_call is tested, and leaving the loop closes
\* the socket.  The result is the set of threads of n that stay.
_receive_audio(n, ths) ==
    IF in_call[n] THEN ths ELSE {t \in ths : t.kind # "recv_audio"}

\* One turn of the loop of _send_audio: test in_call, read the microphone,
\* send the datagram to the peer, whose receive thread, blocked in recvfrom,
\* takes it; a datagram for a port no socket is bound to is lost.  A failing
\* read or send ends the thread.
_send_audio(n, t) ==
    /\ t \in threads[n] /\ t.kind = "send_audio"
    /\ IF in_call[n] /\ audio_input[n] /\ audio_socket[n]
       THEN /\ t.peer \in Nodes
            /\ threads' = [threads EXCEPT ![t.peer] = _receive_audio(t.peer, @)]
            /\ UNCHANGED console
       ELSE /\ threads' = [threads EXCEPT ![n] = @ \ {t}]
            /\ console' = IF in_call[n]
                          THEN [console EXCEPT ![n] = "audio_send_error"]
                          ELSE console
    /\ UNCHANGED <<sessionVars, deviceVars, controlVars, spawned, dialed>>

\* One turn of the loop of _send_video; nothing is sent when the capture
\* returns no frame (ret false).  The peer's _receive_video, blocked in
\* recvfrom, takes the datagram and shows the frame; if its user presses q in
\* the video window it calls end_call and leaves, otherwise it tests in_call.
_send_video(n, t, ret, q_pressed) ==
    /\ t \in threads[n] /\ t.kind = "send_video"
    /\ IF in_call[n] /\ video_capture[n] /\ (ret => video_socket[n])
       THEN LET p == t.peer
                bound == \E r \in threads[p] : r.kind = "recv_video"
                others == {r \in threads[p] : r.kind # "recv_video"}
            IN  /\ p \in Nodes
                /\ (~ret \/ ~bound) => ~q_pressed
                /\ IF ret /\ bound /\ q_pressed
                   THEN /\ end_call(p, control_queue)
                        /\ threads' = [threads EXCEPT ![p] = others]
                   ELSE /\ threads' = [threads EXCEPT ![p] =
                               IF ret /\ bound /\ ~in_call[p] THEN others ELSE @]
                        /\ UNCHANGED <<in_call, deviceVars, control_queue, console>>
       ELSE /\ ~ret /\ ~q_pressed
            /\ threads' = [threads EXCEPT ![n] = @ \ {t}]
            /\ console' = IF in_call[n]
                          THEN [console EXCEPT ![n] = "video_send_error"]
                          ELSE console
            /\ UNCHANGED <<in_call, deviceVars, control_queue>>
    /\ UNCHANGED <<is_caller, call_peer_ip, call_peer_ports, current_call_type,
                   control_pc, pending_request, streams_call_type, spawned, dialed>>

Next ==
    \/ /\ \E n \in Nodes, p \in Nodes, t \in CallTypes : make_call(n, p, t)
       /\ UNCHANGED notCallVars
    \/ /\ \E n \in Nodes : _handle_call_control(n)
       /\ UNCHANGED notCallVars
    \/ /\ \E n \in Nodes : _accept_call(n)
       /\ UNCHANGED notCallVars
    \/ /\ \E n \in Nodes : _reject_call(n)
       /\ UNCHANGED notCallVars
    \/ /\ \E n \in Nodes : call_loop_quit(n)
       /\ UNCHANGED notCallVars
    \/ /\ \E n \in Nodes : call_loop_other(n)
       /\ UNCHANGED notCallVars
    \/ /\ \E n \in Nodes : \E t \in threads[n] : _send_audio(n, t)
       /\ UNCHANGED notCallVars
    \/ /\ \E n \in Nodes : \E t \in threads[n] : \E ret, q \in BOOLEAN : _send_video(n, t, ret, q)
       /\ UNCHANGED notCallVars

Spec == Init /\ [][Next]_vars

(***************************************************************************)
(* The peer registry: the discovery listener and the pruning task.         *)
(***************************************************************************)
\* PeerDiscovery.get_active_peers on a peers table at time current_time.
get_active_peers(table, current_time) ==
    {ip \in DOMAIN table : current_time - table[ip] < ActiveAge}

\* One turn of the loop of _listen_for_peers: a discovery datagram from ip is
\* received; unless it is this host's own, the entry of ip is put with
\* last_seen = now.
_listen_for_peers(ip) ==
    /\ listen_pc = "recv"
    /\ peers' = IF ip # Local
                THEN [p \in DOMAIN peers \cup {ip} |-> IF p = ip THEN now ELSE peers[p]]
                ELSE peers
    /\ UNCHANGED <<now, prune_pc, inactive_peers, next_prune, peer_lost>>

\* _prune_inactive_peers when its sleep is over: current_time is read and the
\* list inactive_peers is built from a copy of the table (the age each entry
\* was judged by is kept with it).  With nothing to remove it sleeps again.
prune_check ==
    /\ prune_pc = "sleep" /\ now = next_prune
    /\ LET current_time == now
           stale == {[ip |-> ip, judged |-> peers[ip]] :
                        ip \in {p \in DOMAIN peers : current_time - peers[p] > PruneAge}}
       IN  /\ inactive_peers' = stale
           /\ prune_pc' = IF stale = {} THEN "sleep" ELSE "remove"
           /\ next_prune' = IF stale = {} THEN now + PrunePeriod ELSE next_prune
    /\ UNCHANGED <<now, peers, peer_lost>>

\* The body of its for loop, for one element of inactive_peers: print the
\* peer-lost line and del self.peers[ip]; after the last one, time.sleep(10).
\* self.peers[ip] of a missing ip raises KeyError, which ends the thread.
prune_remove ==
    /\ prune_pc = "remove"
    /\ \E e \in inactive_peers :
          IF e.ip \in DOMAIN peers
          THEN /\ peer_lost' = [ip |-> e.ip, last_seen |-> peers[e.ip], at |-> now]
               /\ peers' = [p \in DOMAIN peers \ {e.ip} |-> peers[p]]
               /\ inactive_peers' = inactive_peers \ {e}
               /\ prune_pc' = IF inactive_peers' = {} THEN "sleep" ELSE "remove"
               /\ next_prune' = IF inactive_peers' = {} THEN now + PrunePeriod
                                ELSE next_prune
          ELSE /\ prune_pc' = "dead"
               /\ UNCHANGED <<peers, inactive_peers, next_prune, peer_lost>>
    /\ UNCHANGED now

\* Time passes, while the pruning task sleeps and up to the end of its sleep:
\* a pass of the pruning task takes less than one step of the clock.
Tick ==
    /\ now < MaxTime
    /\ \/ prune_pc = "dead"
       \/ prune_pc = "sleep" /\ now < next_prune
    /\ now' = IF prune_pc = "sleep" /\ now + TickStep > next_prune
              THEN next_prune ELSE now + TickStep
    /\ UNCHANGED <<peers, prune_pc, inactive_peers, next_prune, peer_lost>>

NextRegistry ==
    \/ /\ \E ip \in Nodes \cup {Local} : _listen_for_peers(ip)
       /\ UNCHANGED notRegistryVars
    \/ /\ prune_check
       /\ UNCHANGED notRegistryVars
    \/ /\ prune_remove
       /\ UNCHANGED notRegistryVars
    \/ /\ Tick
       /\ UNCHANGED notRegistryVars

SpecRegistry == Init /\ [][NextRegistry]_vars

(***************************************************************************)
(* The message transport.                                                  *)
(***************************************************************************)
\* The envelopes a peer sends: what json.loads gives _handle_client.
\* error is the exception of the read side (None for these), file_data the
\* bytes of a file.
TextEnvelope(username, content) ==
    [type |-> "text", username |-> username, content |-> content, filename |-> None,
     error |-> None, file_data |-> None]
FileEnvelope(username, filename, content) ==
    [type |-> "file", username |-> username, content |-> content, filename |-> filename,
     error |-> None, file_data |-> content]
Envelopes ==
    {TextEnvelope(u, c) : u \in Usernames, c \in Contents}
    \cup {FileEnvelope(u, f, c) : u \in Usernames, f \in Filenames, c \in Contents}

\* A peer at ip connects to the server port and sends the frame of message.
connect(ip, message) ==
    /\ Len(connections) < MaxConns
    /\ connections' = Append(connections,
           [from |-> ip, message |-> message, state |-> "pending",
            read |-> "nothing", known |-> FALSE])
    /\ UNCHANGED <<peers, messages, files, server_console, outbox, send_result>>

\* The accept loop without its test of the source address: a handler thread
\* for every connection.
_start_server_open(i) ==
    /\ i \in 1..Len(connections) /\ connections[i].state = "pending"
    /\ \A j \in 1..(i - 1) : connections[j].state # "pending"
    /\ connections' = [connections EXCEPT ![i] =
           [@ EXCEPT !.state = "handling",
                     !.known = connections[i].from \in DOMAIN peers]]
    /\ UNCHANGED <<peers, messages, files, server_console, outbox, send_result>>

\* One turn of the accept loop of _start_server, on connection i: a handler
\* thread for a source in self.peers, close for any other.
_start_server(i) ==
    /\ i \in 1..Len(connections) /\ connections[i].state = "pending"
    /\ \A j \in 1..(i - 1) : connections[j].state # "pending"
    /\ LET addr == connections[i].from
       IN  connections' = [connections EXCEPT ![i] =
               IF addr \in DOMAIN peers
               THEN [@ EXCEPT !.state = "handling", !.known = TRUE]
               ELSE [@ EXCEPT !.state = "closed"]]
    /\ UNCHANGED <<peers, messages, files, server_console, outbox, send_result>>

\* MessageHandler.save_message(self, message_data), called with the
\* positional arguments args: the call raises TypeError unless there is
\* exactly one; the message is built from the dict and appended.
save_message_binds(args) == Len(args) = 1
save_message(args) ==
    LET message_data == args[1]
    IN  Append(messages,
            [sender_ip |-> message_data.sender_ip,
             sender_username |-> message_data.username,
             content |-> message_data.content, type |-> message_data.type])

\* _handle_client on connection i: the header and the payload are read and
\* parsed; a file is written to data/files under the name received; any
\* other message is printed and handed to save_message; any exception, of
\* the read side or of a branch, is printed; the socket is closed.
_handle_client(i) ==
    /\ i \in 1..Len(connections) /\ connections[i].state = "handling"
    /\ LET addr == connections[i].from
           message == connections[i].message
           args == <<addr, message.username, message.content>>
       IN  /\ connections' = [connections EXCEPT ![i] =
                   [@ EXCEPT !.state = "closed", !.read = "message"]]
           /\ IF message.error # None
              THEN /\ server_console' = "error_handling_client"
                   /\ UNCHANGED <<messages, files>>
              ELSE IF message.type = "file"
              THEN /\ files' = [f \in DOMAIN files \cup {message.filename} |->
                                  IF f = message.filename THEN message.file_data
                                  ELSE files[f]]
                   /\ server_console' = "file_received"
                   /\ UNCHANGED messages
              ELSE /\ UNCHANGED files
                   /\ IF save_message_binds(args)
                      THEN /\ messages' = save_message(args)
                           /\ server_console' = "new_message"
                      ELSE /\ server_console' = "error_handling_client"
                           /\ UNCHANGED messages
    /\ UNCHANGED <<peers, outbox, send_result>>

\* The try statement of send_message and of send_file_to_peer with no except
\* clause: an exception of connect or sendall reaches the caller.
send_attempt_uncaught(op, peer_ip, net) ==
    [op |-> op, to |-> peer_ip, net |-> net, raised |-> (net # "ok"),
     returned |-> None, printed |-> IF net = "ok" THEN "sent" ELSE None]

\* The try statement of send_message and of send_file_to_peer around the
\* call of _send_with_length: connect and sendall end with net; success prints the
\* sent line, every exception is caught and prints the failure line; the
\* function returns nothing either way.
send_attempt(op, peer_ip, net) ==
    [op |-> op, to |-> peer_ip, net |-> net, raised |-> FALSE,
     returned |-> None,
     printed |-> IF net = "ok" THEN "sent" ELSE "failed_to_send"]

\* The body of LANClient.send_message: True after sendall, False after any
\* exception.
LANClient_result(peer_ip, net) ==
    [op |-> "LANClient_send_message", to |-> peer_ip, net |-> net, raised |-> FALSE,
     returned |-> (net = "ok"),
     printed |-> IF net = "ok" THEN "sent" ELSE "failed_to_send"]

\* LANMessenger.send_message and send_file_to_peer: the peer is looked up in
\* self.peers, then the frame is sent.
send_to_peer(op, peer_ip, net) ==
    /\ Cardinality(outbox) < MaxSends
    /\ IF peer_ip \notin DOMAIN peers
       THEN /\ send_result' = [op |-> op, to |-> peer_ip, net |-> None, raised |-> FALSE,
                               returned |-> None, printed |-> "peer_not_found"]
            /\ UNCHANGED outbox
       ELSE /\ outbox' = outbox \cup {[op |-> op, to |-> peer_ip, registered |-> TRUE]}
            /\ send_result' = send_attempt(op, peer_ip, net)
    /\ UNCHANGED <<peers, connections, messages, files, server_console>>
send_message(peer_ip, net) == send_to_peer("send_message", peer_ip, net)
send_file_to_peer(peer_ip, net) == send_to_peer("send_file_to_peer", peer_ip, net)

\* LANMessenger.make_voice_call and make_video_call: the peer is looked up in
\* self.peers, then VoiceVideoHandler.make_call sends the call_request (the
\* handler of this host is in no call).
make_voice_call(peer_ip) ==
    /\ Cardinality(outbox) < MaxSends
    /\ IF peer_ip \notin DOMAIN peers
       THEN /\ send_result' = [op |-> "make_call", to |-> peer_ip, net |-> None,
                               raised |-> FALSE, returned |-> None,
                               printed |-> "peer_not_found"]
            /\ UNCHANGED outbox
       ELSE /\ outbox' = outbox \cup
                   {[op |-> "make_call", to |-> peer_ip, registered |-> TRUE]}
            /\ send_result' = [op |-> "make_call", to |-> peer_ip, net |-> "ok",
                               raised |-> FALSE, returned |-> None, printed |-> "calling"]
    /\ UNCHANGED <<peers, connections, messages, files, server_console>>

\* VoiceVideoHandler.make_call called as its own command loop calls it
\* (call <ip>): no table of peers is read.
handler_make_call(peer_ip) ==
    /\ Cardinality(outbox) < MaxSends
    /\ outbox' = outbox \cup
           {[op |-> "handler_make_call", to |-> peer_ip,
             registered |-> peer_ip \in DOMAIN peers]}
    /\ send_result' = [op |-> "handler_make_call", to |-> peer_ip, net |-> "ok",
                       raised |-> FALSE, returned |-> None, printed |-> "calling"]
    /\ UNCHANGED <<peers, connections, messages, files, server_console>>

\* LANClient.send_message: connect and sendall to peer_ip, ending with net;
\* True is returned on success, False after any exception.
LANClient_send_message(peer_ip, net) ==
    /\ Cardinality(outbox) < MaxSends
    /\ outbox' = outbox \cup
           {[op |-> "LANClient_send_message", to |-> peer_ip,
             registered |-> peer_ip \in DOMAIN peers]}
    /\ send_result' = LANClient_result(peer_ip, net)
    /\ UNCHANGED <<peers, connections, messages, files, server_console>>

NextTransport ==
    \/ /\ \E ip \in Nodes \cup {Local} : _listen_for_peers(ip)
       /\ UNCHANGED <<callVars, transportVars, framingVars, laterVars>>
    \/ /\ \E ip \in Nodes, message \in Envelopes : connect(ip, message)
       /\ UNCHANGED notTransportVars
    \/ /\ \E i \in 1..MaxConns : _start_server(i)
       /\ UNCHANGED notTransportVars
    \/ /\ \E i \in 1..MaxConns : _handle_client(i)
       /\ UNCHANGED notTransportVars
    \/ /\ \E ip \in Nodes, net \in NetOutcomes : send_message(ip, net)
       /\ UNCHANGED notTransportVars
    \/ /\ \E ip \in Nodes, net \in NetOutcomes : send_file_to_peer(ip, net)
       /\ UNCHANGED notTransportVars
    \/ /\ \E ip \in Nodes : make_voice_call(ip)
       /\ UNCHANGED notTransportVars
    \/ /\ \E ip \in Nodes : handler_make_call(ip)
       /\ UNCHANGED notTransportVars
    \/ /\ \E ip \in Nodes, net \in NetOutcomes : LANClient_send_message(ip, net)
       /\ UNCHANGED notTransportVars

SpecTransport == Init /\ [][NextTransport]_vars

(***************************************************************************)
(* The framing.                                                            *)
(***************************************************************************)
Min(a, b) == IF a < b THEN a ELSE b
Take(q, k) == SubSeq(q, 1, Min(k, Len(q)))
Drop(q, k) == SubSeq(q, Min(k, Len(q)) + 1, Len(q))

\* The buffer size asked of recv with the whole length on every turn.
recv_bufsize_whole(len, got) == len

\* The buffer size _recv_all asks of recv: what is still missing.
recv_bufsize(len, got) == len - Len(got)

\* One turn of the loop of _recv_all: recv returns at least one and at most
\* bufsize of the bytes still to come, as many as have arrived (k), or the
\* empty string once the peer has closed; the empty string raises EOFError.
_recv_all_recv(k) ==
    /\ recv_pc = "loop" /\ Len(data) < length
    /\ LET bufsize == recv_bufsize(length, data)
           more == IF sock = <<>> THEN <<>> ELSE Take(sock, Min(k, bufsize))
       IN  /\ k \in 1..Min(bufsize, Len(sock)) \/ (sock = <<>> /\ k = 1)
           /\ recv_calls' = recv_calls + 1
           /\ IF more = <<>>
              THEN /\ recv_pc' = "EOFError"
                   /\ UNCHANGED <<data, sock>>
              ELSE /\ data' = data \o more
                   /\ sock' = Drop(sock, Len(more))
                   /\ recv_pc' = "loop"
    /\ UNCHANGED <<stream, length>>

\* The loop test of _recv_all fails: data is returned.
_recv_all_return ==
    /\ recv_pc = "loop" /\ ~(Len(data) < length)
    /\ recv_pc' = "returned"
    /\ UNCHANGED <<stream, length, sock, data, recv_calls>>

\* Strings and byte strings are sequences of runs: n times the character or
\* byte ch.  A string written out in full has runs of one.
Run(c, k) == [ch |-> c, n |-> k]
Str(q) == [i \in 1..Len(q) |-> Run(q[i], 1)]
RECURSIVE RLen(_)
RLen(t) == IF t = <<>> THEN 0 ELSE Head(t).n + RLen(Tail(t))
RECURSIVE RTake(_, _)
RTake(t, k) ==
    IF k <= 0 \/ t = <<>> THEN <<>>
    ELSE IF Head(t).n <= k THEN <<Head(t)>> \o RTake(Tail(t), k - Head(t).n)
    ELSE <<Run(Head(t).ch, k)>>
RECURSIVE RDrop(_, _)
RDrop(t, k) ==
    IF k <= 0 \/ t = <<>> THEN t
    ELSE IF Head(t).n <= k THEN RDrop(Tail(t), k - Head(t).n)
    ELSE <<Run(Head(t).ch, Head(t).n - k)>> \o Tail(t)
\* The same string with no two neighbouring runs of one character.
RECURSIVE Norm(_)
Norm(t) ==
    IF Len(t) < 2 THEN t
    ELSE IF t[1].ch = t[2].ch
         THEN Norm(<<Run(t[1].ch, t[1].n + t[2].n)>> \o Tail(Tail(t)))
         ELSE <<t[1]>> \o Norm(Tail(t))
Same(a, b) == Norm(a) = Norm(b)
\* A short string written out in full.
RECURSIVE Expand(_)
Expand(t) ==
    IF t = <<>> THEN <<>>
    ELSE <<Head(t).ch>> \o Expand(RDrop(t, 1))

Quote == "\""
Backslash == "\\"
\* The characters outside ASCII of the model and their \uXXXX escapes.
UnicodeEscapes == {[ch |-> "U00E9", hex |-> <<"0", "0", "e", "9">>]}
NonAscii == {e.ch : e \in UnicodeEscapes}

\* json.dumps of a str with ensure_ascii: the escapes of the encoder.
json_escape_char(c) ==
    IF c = Quote THEN <<Backslash, Quote>>
    ELSE IF c = Backslash THEN <<Backslash, Backslash>>
    ELSE IF c \in NonAscii
         THEN <<Backslash, "u">> \o (CHOOSE e \in UnicodeEscapes : e.ch = c).hex
    ELSE <<c>>
RECURSIVE json_escape(_)
json_escape(t) ==
    IF t = <<>> THEN <<>>
    ELSE LET e == json_escape_char(Head(t).ch)
         IN  IF Len(e) = 1 THEN <<Head(t)>> \o json_escape(Tail(t))
             ELSE Str(e) \o json_escape(RDrop(t, 1))
json_string(t) == Str(<<Quote>>) \o json_escape(t) \o Str(<<Quote>>)

\* json.dumps of a dict of str to str, given as its items in order, with the
\* default separators; the result is ASCII, so encode('utf-8') gives one
\* byte for each character.
RECURSIVE json_members(_)
json_members(items) ==
    IF items = <<>> THEN <<>>
    ELSE json_string(Str(items[1].key)) \o Str(<<":", " ">>)
         \o json_string(items[1].value)
         \o (IF Len(items) > 1 THEN Str(<<",", " ">>) ELSE <<>>)
         \o json_members(Tail(items))
json_dumps(items) == Str(<<"{">>) \o json_members(items) \o Str(<<"}">>)

\* json.loads: the scanner of a string, after its opening quote.
RECURSIVE scan_string(_, _)
scan_string(t, acc) ==
    IF t = <<>> THEN [ok |-> FALSE, value |-> acc, rest |-> t]
    ELSE LET c == Head(t).ch
             after == RDrop(t, 1)
         IN  IF c = Quote THEN [ok |-> TRUE, value |-> acc, rest |-> after]
             ELSE IF c = Backslash
             THEN IF after = <<>> THEN [ok |-> FALSE, value |-> acc, rest |-> after]
                  ELSE LET e == Head(after).ch
                           after2 == RDrop(after, 1)
                           hex == Expand(RTake(after2, 4))
                       IN  IF e \in {Quote, Backslash}
                           THEN scan_string(after2, acc \o <<Run(e, 1)>>)
                           ELSE IF e = "u" /\ \E u \in UnicodeEscapes : u.hex = hex
                           THEN scan_string(RDrop(after2, 4),
                                    acc \o <<Run((CHOOSE u \in UnicodeEscapes : u.hex = hex).ch, 1)>>)
                           ELSE [ok |-> FALSE, value |-> acc, rest |-> after]
             ELSE scan_string(Tail(t), acc \o <<Head(t)>>)

RECURSIVE skip_whitespace(_)
skip_whitespace(t) ==
    IF t # <<>> /\ Head(t).ch = " " THEN skip_whitespace(Tail(t)) ELSE t
Next_char(t) == IF t = <<>> THEN None ELSE Head(t).ch

\* json.loads: the members of an object, after its opening brace.
RECURSIVE scan_members(_, _)
scan_members(t, items) ==
    LET t1 == skip_whitespace(t)
    IN  IF Next_char(t1) # Quote THEN [ok |-> FALSE, items |-> items, rest |-> t1]
        ELSE LET k == scan_string(RDrop(t1, 1), <<>>)
                 t2 == skip_whitespace(k.rest)
                 t3 == skip_whitespace(RDrop(t2, 1))
             IN  IF ~k.ok \/ Next_char(t2) # ":" \/ Next_char(t3) # Quote
                 THEN [ok |-> FALSE, items |-> items, rest |-> t2]
                 ELSE LET v == scan_string(RDrop(t3, 1), <<>>)
                          t4 == skip_whitespace(v.rest)
                          more == Append(items, [key |-> Expand(k.value), value |-> v.value])
                      IN  IF ~v.ok THEN [ok |-> FALSE, items |-> items, rest |-> t4]
                          ELSE IF Next_char(t4) = "," THEN scan_members(RDrop(t4, 1), more)
                          ELSE IF Next_char(t4) = "}"
                               THEN [ok |-> TRUE, items |-> more, rest |-> RDrop(t4, 1)]
                          ELSE [ok |-> FALSE, items |-> more, rest |-> t4]

\* json.loads of the payload: the dict of a JSON object of strings, or an
\* exception for a text that is not one object and nothing else.
json_loads(t) ==
    LET t1 == skip_whitespace(t)
    IN  IF Next_char(t1) # "{" THEN [error |-> "JSONDecodeError", items |-> <<>>]
        ELSE LET t2 == skip_whitespace(RDrop(t1, 1))
                 m == IF Next_char(t2) = "}"
                      THEN [ok |-> TRUE, items |-> <<>>, rest |-> RDrop(t2, 1)]
                      ELSE scan_members(t2, <<>>)
             IN  IF m.ok /\ skip_whitespace(m.rest) = <<>>
                 THEN [error |-> None, items |-> m.items]
                 ELSE [error |-> "JSONDecodeError", items |-> <<>>]

\* dict: key in message, and message.get(key, default).
Has(items, key) == \E i \in 1..Len(items) : items[i].key = key
Get(items, key, default) ==
    IF Has(items, key)
    THEN items[CHOOSE i \in 1..Len(items) :
                   items[i].key = key /\ \A j \in (i + 1)..Len(items) : items[j].key # key].value
    ELSE default

\* base64: the alphabet, and the groups of three bytes and four characters.
B64Alphabet ==
    <<"A", "B", "C", "D", "E", "F", "G", "H", "I", "J", "K", "L", "M", "N", "O", "P",
      "Q", "R", "S", "T", "U", "V", "W", "X", "Y", "Z", "a", "b", "c", "d", "e", "f",
      "g", "h", "i", "j", "k", "l", "m", "n", "o", "p", "q", "r", "s", "t", "u", "v",
      "w", "x", "y", "z", "0", "1", "2", "3", "4", "5", "6", "7", "8", "9", "+", "/">>
B64Chars == {B64Alphabet[i] : i \in 1..64}
B64Char(v) == B64Alphabet[v + 1]
B64Value(c) == (CHOOSE i \in 1..64 : B64Alphabet[i] = c) - 1
b64_group(g) ==
    LET b1 == g[1]
        b2 == IF Len(g) > 1 THEN g[2] ELSE 0
        b3 == IF Len(g) > 2 THEN g[3] ELSE 0
    IN  << B64Char(b1 \div 4),
           B64Char((b1 % 4) * 16 + b2 \div 16),
           IF Len(g) > 1 THEN B64Char((b2 % 16) * 4 + b3 \div 64) ELSE "=",
           IF Len(g) > 2 THEN B64Char(b3 % 64) ELSE "=" >>
b64_ungroup(g) ==
    LET v1 == B64Value(g[1])
        v2 == B64Value(g[2])
        v3 == IF g[3] = "=" THEN 0 ELSE B64Value(g[3])
        v4 == IF g[4] = "=" THEN 0 ELSE B64Value(g[4])
        b1 == v1 * 4 + v2 \div 16
        b2 == (v2 % 16) * 16 + v3 \div 4
        b3 == (v3 % 4) * 64 + v4
    IN  IF g[3] = "=" THEN <<b1>> ELSE IF g[4] = "=" THEN <<b1, b2>> ELSE <<b1, b2, b3>>
Uniform(q) == \A i \in 1..Len(q) : q[i] = q[1]

\* base64.b64encode of a byte string; a long run of a byte whose group is
\* one character four times is encoded as one run.
RECURSIVE b64encode(_)
b64encode(t) ==
    IF t = <<>> THEN <<>>
    ELSE LET r == Head(t)
             whole == b64_group(<<r.ch, r.ch, r.ch>>)
         IN  IF r.n >= 3 /\ Uniform(whole)
             THEN <<Run(whole[1], 4 * (r.n \div 3))>> \o b64encode(RDrop(t, 3 * (r.n \div 3)))
             ELSE Str(b64_group(Expand(RTake(t, 3)))) \o b64encode(RDrop(t, 3))

\* binascii.a2b_base64 without strict mode, as base64.b64decode calls it:
\* a character outside the alphabet is skipped; a character of the alphabet
\* is the next of a group of four (quad_pos) and gives a byte from the
\* second on; padding that completes a group begun with two or three
\* characters ends the decoding, whatever follows; an input that ends inside
\* a group raises binascii.Error.  A long run of one character whose group
\* is one byte three times is decoded as one run.
RECURSIVE a2b_base64(_, _, _, _, _)
a2b_base64(t, quad_pos, leftchar, pads, out) ==
    IF t = <<>>
    THEN IF quad_pos = 0 THEN [error |-> None, data |-> out]
         ELSE [error |-> "binascii.Error", data |-> <<>>]
    ELSE LET c == Head(t).ch
             rest == RDrop(t, 1)
         IN  IF c = "="
             THEN IF quad_pos >= 2 /\ quad_pos + pads + 1 >= 4
                  THEN [error |-> None, data |-> out]
                  ELSE IF quad_pos >= 2
                  THEN a2b_base64(rest, quad_pos, leftchar, pads + 1, out)
                  ELSE a2b_base64(Tail(t), quad_pos, leftchar, pads, out)
             ELSE IF c \notin B64Chars
             THEN a2b_base64(Tail(t), quad_pos, leftchar, pads, out)
             ELSE LET v == B64Value(c)
                      n4 == Head(t).n \div 4
                  IN  IF quad_pos = 0 /\ n4 >= 1 /\ Uniform(b64_ungroup(<<c, c, c, c>>))
                      THEN a2b_base64(RDrop(t, 4 * n4), 0, 0, 0,
                               out \o <<Run(b64_ungroup(<<c, c, c, c>>)[1], 3 * n4)>>)
                      ELSE IF quad_pos = 0 THEN a2b_base64(rest, 1, v, 0, out)
                      ELSE IF quad_pos = 1
                      THEN a2b_base64(rest, 2, v % 16, 0,
                               out \o <<Run(leftchar * 4 + v \div 16, 1)>>)
                      ELSE IF quad_pos = 2
                      THEN a2b_base64(rest, 3, v % 4, 0,
                               out \o <<Run(leftchar * 16 + v \div 4, 1)>>)
                      ELSE a2b_base64(rest, 0, 0, 0, out \o <<Run(leftchar * 64 + v, 1)>>)

\* base64.b64decode of a str: the str is encoded as ASCII, which raises
\* ValueError for a character outside ASCII, and given to a2b_base64.
b64decode(t) ==
    IF \E i \in 1..Len(t) : t[i].ch \in NonAscii
    THEN [error |-> "ValueError", data |-> <<>>]
    ELSE a2b_base64(t, 0, 0, 0, <<>>)

\* What _recv_all gives for a stream and a length: the first len bytes and
\* the bytes left in the socket, or EOFError.
_recv_all(q, len) ==
    IF RLen(q) >= len
    THEN [raised |-> None, data |-> RTake(q, len), rest |-> RDrop(q, len)]
    ELSE [raised |-> "EOFError", data |-> <<>>, rest |-> <<>>]

\* The decimal digits of a natural number, and format(n, "08").
DigitChars == <<"0", "1", "2", "3", "4", "5", "6", "7", "8", "9">>
RECURSIVE Decimal(_)
Decimal(n) ==
    IF n < 10 THEN <<DigitChars[n + 1]>>
    ELSE Decimal(n \div 10) \o <<DigitChars[(n % 10) + 1]>>
format_08(n) ==
    LET d == Decimal(n)
    IN  IF Len(d) >= HeaderWidth THEN d
        ELSE [i \in 1..(HeaderWidth - Len(d)) |-> "0"] \o d

\* int() of a string of decimal digits.
IsDigits(q) == q # <<>> /\ \A i \in 1..Len(q) : \E d \in 1..10 : DigitChars[d] = q[i]
RECURSIVE int(_)
int(q) ==
    IF q = <<>> THEN 0
    ELSE int(SubSeq(q, 1, Len(q) - 1)) * 10
         + ((CHOOSE d \in 1..10 : DigitChars[d] = q[Len(q)]) - 1)

\* _send_with_length: what is given to sendall, the header and the payload.
_send_with_length(json_bytes) ==
    [length_header |-> format_08(RLen(json_bytes)), json_bytes |-> json_bytes]
Wire(f) == Str(f.length_header) \o f.json_bytes

\* The dict send_message and send_file_to_peer build.
TypeKey == <<"t", "y", "p", "e">>
ContentKey == <<"c", "o", "n", "t", "e", "n", "t">>
UsernameKey == <<"u", "s", "e", "r", "n", "a", "m", "e">>
FilenameKey == <<"f", "i", "l", "e", "n", "a", "m", "e">>
TextType == <<"t", "e", "x", "t">>
FileType == <<"f", "i", "l", "e">>
build_message(req) ==
    IF req.op = "send_message"
    THEN << [key |-> TypeKey, value |-> Str(TextType)],
            [key |-> ContentKey, value |-> req.body],
            [key |-> UsernameKey, value |-> req.username] >>
    ELSE << [key |-> TypeKey, value |-> Str(FileType)],
            [key |-> UsernameKey, value |-> req.username],
            [key |-> FilenameKey, value |-> req.filename],
            [key |-> ContentKey, value |-> b64encode(req.body)] >>

\* send_message and send_file_to_peer up to sendall: the dict, json.dumps,
\* the header.
send_frame ==
    /\ frame_pc = "send"
    /\ envelope' = build_message(request)
    /\ frame' = _send_with_length(json_dumps(build_message(request)))
    /\ frame_pc' = "receive"
    /\ UNCHANGED <<request, decoded>>

\* _handle_client up to the branches' effects: the header, the length, the
\* payload, json.loads, the fields each branch reads.
Failed(e) == [NoDecoded EXCEPT !.error = e]
read_frame(wire) ==
    LET length_bytes == _recv_all(wire, HeaderWidth)
    IN  IF length_bytes.raised # None THEN Failed(length_bytes.raised)
        ELSE IF ~IsDigits(Expand(length_bytes.data)) THEN Failed("ValueError")
        ELSE LET msg_length == int(Expand(length_bytes.data))
                 data_bytes == _recv_all(length_bytes.rest, msg_length)
             IN  IF data_bytes.raised # None THEN Failed(data_bytes.raised)
                 ELSE LET message == json_loads(data_bytes.data)
                          items == message.items
                          msg_type == Get(items, TypeKey, Str(TextType))
                      IN  IF message.error # None THEN Failed(message.error)
                          ELSE IF Same(msg_type, Str(FileType))
                          THEN IF ~Has(items, FilenameKey) \/ ~Has(items, ContentKey)
                               THEN Failed("KeyError")
                               ELSE IF b64decode(Get(items, ContentKey, <<>>)).error # None
                               THEN Failed(b64decode(Get(items, ContentKey, <<>>)).error)
                               ELSE [error |-> None, type |-> msg_type,
                                     username |-> Get(items, UsernameKey, Str(<<"U", "n", "k", "n", "o", "w", "n">>)),
                                     content |-> Get(items, ContentKey, <<>>),
                                     filename |-> Get(items, FilenameKey, <<>>),
                                     file_data |-> b64decode(Get(items, ContentKey, <<>>)).data]
                          ELSE [error |-> None, type |-> msg_type,
                                username |-> Get(items, UsernameKey, Str(<<"U", "n", "k", "n", "o", "w", "n">>)),
                                content |-> Get(items, ContentKey, <<>>),
                                filename |-> <<>>, file_data |-> <<>>]
receive_frame ==
    /\ frame_pc = "receive"
    /\ decoded' = read_frame(Wire(frame))
    /\ frame_pc' = "done"
    /\ UNCHANGED <<request, envelope, frame>>

\* The initial states of the framing: any stream, any declared length.
RecvInit ==
    /\ stream \in Streams /\ length \in Lengths
    /\ sock = stream /\ data = <<>> /\ recv_calls = 0 /\ recv_pc = "loop"

\* The requests: every short text of TextChars, every short file of
\* FileBytes, and the long ones of BigTexts and BigFiles.
TextChars == {"a", Quote, Backslash, "U00E9"}
FileBytes == {0, 97, 255}
BigTexts == {99999947, 99999948}
BigFiles == {74999943, 75000000}
Username == <<"a", "l", "i", "c", "e">>
Filename == <<"a", ".", "t", "x", "t">>
Requests ==
    {[op |-> "send_message", username |-> Str(Username), body |-> Str(q),
      filename |-> <<>>] : q \in SeqsUpTo(TextChars, MaxText)}
    \cup {[op |-> "send_message", username |-> Str(Username), body |-> <<Run("a", k)>>,
           filename |-> <<>>] : k \in BigTexts}
    \cup {[op |-> "send_file_to_peer", username |-> Str(Username), body |-> Str(q),
           filename |-> Str(Filename)] : q \in SeqsUpTo(FileBytes, MaxFile)}
    \cup {[op |-> "send_file_to_peer", username |-> Str(Username), body |-> <<Run(0, k)>>,
           filename |-> Str(Filename)] : k \in BigFiles}
FrameInit ==
    /\ request \in Requests
    /\ envelope = NoEnvelope /\ frame = NoFrame /\ decoded = NoDecoded
    /\ frame_pc = "send"

\* A run of _recv_all on any stream, or the sending of any request.
InitFraming ==
    /\ CallInit
    /\ RegistryInit
    /\ TransportInit
    /\ LaterInit
    /\ \/ /\ RecvInit
          /\ request = NoRequest /\ envelope = NoEnvelope /\ frame = NoFrame
          /\ decoded = NoDecoded /\ frame_pc = "idle"
       \/ /\ stream = <<>> /\ length = 0 /\ sock = <<>> /\ data = <<>>
          /\ recv_calls = 0 /\ recv_pc = "returned"
          /\ FrameInit

NextFraming ==
    \/ /\ \E k \in 1..(MaxStream + 1) : _recv_all_recv(k)
       /\ UNCHANGED <<notFramingVars, frameVars>>
    \/ /\ _recv_all_return
       /\ UNCHANGED <<notFramingVars, frameVars>>
    \/ /\ send_frame
       /\ UNCHANGED <<notFramingVars, recvVars>>
    \/ /\ receive_frame
       /\ UNCHANGED <<notFramingVars, recvVars>>

SpecFraming == InitFraming /\ [][NextFraming]_vars

(***************************************************************************)
(* The services on valid and malformed input.                              *)
(***************************************************************************)
\* What a discovery datagram can be besides a well-formed discovery
\* envelope: a JSON object of another type, bytes that are not JSON, a
\* discovery envelope with no username.
BadDatagrams == {"other_type", "not_json", "no_username"}

\* One turn of the loop of _listen_for_peers on such a datagram from ip: an
\* object of another type is ignored; anything that raises, json.loads or
\* message['username'], ends the loop and the socket is closed.
_listen_for_peers_bad(ip, kind) ==
    /\ listen_pc = "recv"
    /\ listen_pc' = IF kind = "not_json" \/ (kind = "no_username" /\ ip # Local)
                    THEN "closed" ELSE "recv"
    /\ UNCHANGED peers

\* The frames the TCP server is given: built by a sender of this program,
\* or bytes of any other origin.
AliceChars == <<"a", "l", "i", "c", "e">>
FrameOf(json_bytes) == Wire(_send_with_length(json_bytes))
\* The JSON objects among them: a text, a file, an object of another type,
\* a file whose content has no character of the base64 alphabet, a file
\* whose content ends inside a base64 group, a file without filename.
ServiceObjects ==
    { [kind |-> "text",
       items |-> << [key |-> TypeKey, value |-> Str(TextType)],
                    [key |-> ContentKey, value |-> Str(<<"h", "i">>)],
                    [key |-> UsernameKey, value |-> Str(AliceChars)] >>],
      [kind |-> "file",
       items |-> << [key |-> TypeKey, value |-> Str(FileType)],
                    [key |-> UsernameKey, value |-> Str(AliceChars)],
                    [key |-> FilenameKey, value |-> Str(<<"a">>)],
                    [key |-> ContentKey, value |-> Str(<<"Y", "Q", "=", "=">>)] >>],
      [kind |-> "unknown_type",
       items |-> << [key |-> TypeKey, value |-> Str(<<"p", "i", "n", "g">>)],
                    [key |-> ContentKey, value |-> Str(<<"h", "i">>)],
                    [key |-> UsernameKey, value |-> Str(AliceChars)] >>],
      [kind |-> "file_content_not_base64",
       items |-> << [key |-> TypeKey, value |-> Str(FileType)],
                    [key |-> UsernameKey, value |-> Str(AliceChars)],
                    [key |-> FilenameKey, value |-> Str(<<"a">>)],
                    [key |-> ContentKey, value |-> Str(<<"!", "!", "!">>)] >>],
      [kind |-> "file_content_bad_padding",
       items |-> << [key |-> TypeKey, value |-> Str(FileType)],
                    [key |-> UsernameKey, value |-> Str(AliceChars)],
                    [key |-> FilenameKey, value |-> Str(<<"a">>)],
                    [key |-> ContentKey, value |-> Str(<<"Y", "Q">>)] >>],
      [kind |-> "file_no_filename",
       items |-> << [key |-> TypeKey, value |-> Str(FileType)],
                    [key |-> UsernameKey, value |-> Str(AliceChars)],
                    [key |-> ContentKey, value |-> Str(<<"Y", "Q", "=", "=">>)] >>] }
\* The payloads: those objects as json.dumps writes them, and bytes that are
\* not JSON.
ServicePayloads ==
    {[kind |-> o.kind, json_bytes |-> json_dumps(o.items)] : o \in ServiceObjects}
    \cup {[kind |-> "not_json", json_bytes |-> Str(<<"h", "i">>)]}
\* The streams: the frames of the payloads, a stream whose first eight bytes
\* are not digits, a stream that ends before the declared length, an empty
\* stream.
ServiceWires ==
    {[kind |-> q.kind, bytes |-> FrameOf(q.json_bytes)] : q \in ServicePayloads}
    \cup { [kind |-> "bad_header",
            bytes |-> Str(<<"h", "e", "a", "d", "e", "r", "!", "!", "{", "}">>)],
           [kind |-> "truncated",
            bytes |-> Str(<<"0", "0", "0", "0", "0", "0", "9", "9", "{", "}">>)],
           [kind |-> "empty", bytes |-> <<>>] }
WellFormedKinds == {"text", "file"}

\* The dict and the outcome of the read side of _handle_client on a frame,
\* with the branch the type selects.
TypeName(t) ==
    IF Same(t, Str(FileType)) THEN "file"
    ELSE IF Same(t, Str(TextType)) THEN "text" ELSE "other"
Dispatched(d, kind) ==
    [type |-> TypeName(d.type), username |-> d.username, content |-> d.content,
     filename |-> d.filename, error |-> d.error, file_data |-> d.file_data,
     kind |-> kind]
Received(w) == Dispatched(read_frame(w.bytes), w.kind)

\* What the handler threads get from the frames of ServiceWires.
ServiceMessages == {Received(w) : w \in ServiceWires}

\* A datagram on the control port that is not a control message of this
\* program: bytes that are not JSON, for which json.loads raises.
BadControl(from) ==
    [type |-> "malformed", from |-> from, call_type |-> None, ports |-> None, at |-> None]
\* The JSON object of a datagram has no member of that key: message[key]
\* raises KeyError.
Lacks(message, key) == key \notin DOMAIN message
\* The datagrams on which the turn of _control_server raises before the
\* handler has changed anything: json.loads raises, or message['ports'] of a
\* call_accepted raises KeyError while the arguments of
\* _start_media_streams are evaluated.
Raises(message) ==
    \/ message.type = "malformed"
    \/ message.type = "call_accepted" /\ Lacks(message, "ports")
bad_control_datagram(n) ==
    /\ control_queue' = _send_control_message(control_queue, n, BadControl(None))
    /\ control_queue' # control_queue
    /\ UNCHANGED <<sessionVars, deviceVars, control_pc, pending_request, streams_call_type,
                   mediaVars, console, dialed>>

\* One turn of the loop of _control_server on such a datagram: json.loads or
\* _handle_call_control raises, the except clause prints, the loop goes on.
_control_server_error(n) ==
    /\ control_pc[n] = "recv"
    /\ control_queue[n] # <<>>
    /\ Raises(Head(control_queue[n]))
    /\ control_queue' = [control_queue EXCEPT ![n] = Tail(@)]
    /\ console' = [console EXCEPT ![n] = "call_control_error"]
    /\ UNCHANGED <<sessionVars, deviceVars, control_pc, pending_request, streams_call_type,
                   mediaVars, dialed>>

\* The host whose user dials in the run of the services.
Caller == "A"

\* One turn of the loop of _control_server on a control message.
_control_server(n) ==
    /\ control_queue[n] # <<>>
    /\ ~Raises(Head(control_queue[n]))
    /\ _handle_call_control(n)

\* The frames of the run of the three services together: one that is
\* handled to the end and one that raises in the handler.
ServiceMessagesBoth == {m \in ServiceMessages : m.kind \in {"text", "not_json"}}

notServiceCallVars == <<registryVars, transportVars, framingVars>>
notServiceTransportVars ==
    <<callVars, now, prune_pc, inactive_peers, next_prune, peer_lost, framingVars>>

NextServices ==
    \/ /\ \E ip \in {Caller, Local} : _listen_for_peers(ip)
       /\ UNCHANGED <<callVars, transportVars, framingVars, laterVars>>
    \/ /\ \E ip \in {Caller, Local}, kind \in BadDatagrams : _listen_for_peers_bad(ip, kind)
       /\ UNCHANGED <<callVars, now, prune_pc, inactive_peers, next_prune, peer_lost,
                      transportVars, framingVars, videoVars, hubVars, engineVars>>
    \/ /\ \E m \in ServiceMessagesBoth : connect(Caller, m)
       /\ UNCHANGED <<notServiceTransportVars, laterVars>>
    \/ /\ \E i \in 1..MaxConns : _start_server(i)
       /\ UNCHANGED <<notServiceTransportVars, laterVars>>
    \/ /\ \E i \in 1..MaxConns : _handle_client(i)
       /\ UNCHANGED <<notServiceTransportVars, laterVars>>
    \/ /\ \E n \in Nodes : bad_control_datagram(n)
       /\ UNCHANGED <<notServiceCallVars, laterVars>>
    \/ /\ \E n \in Nodes : _control_server_error(n)
       /\ UNCHANGED <<notServiceCallVars, laterVars>>
    \/ /\ \E p \in Nodes : make_call(Caller, p, "audio")
       /\ UNCHANGED <<notServiceCallVars, laterVars>>
    \/ /\ \E n \in Nodes : _control_server(n)
       /\ UNCHANGED <<notServiceCallVars, laterVars>>
    \/ /\ \E n \in Nodes : _reject_call(n)
       /\ UNCHANGED <<notServiceCallVars, laterVars>>

SpecServices == Init /\ [][NextServices]_vars

\* The TCP server alone on every frame of ServiceWires.
NextInbound ==
    \/ /\ \E ip \in Nodes \cup {Local} : _listen_for_peers(ip)
       /\ UNCHANGED <<callVars, transportVars, framingVars, laterVars>>
    \/ /\ \E ip \in Nodes, m \in ServiceMessages : connect(ip, m)
       /\ UNCHANGED <<notServiceTransportVars, laterVars>>
    \/ /\ \E i \in 1..MaxConns : _start_server(i)
       /\ UNCHANGED <<notServiceTransportVars, laterVars>>
    \/ /\ \E i \in 1..MaxConns : _handle_client(i)
       /\ UNCHANGED <<notServiceTransportVars, laterVars>>

SpecInbound == Init /\ [][NextInbound]_vars

(***************************************************************************)
(* The call engine and a host that runs another program.                   *)
(***************************************************************************)
\* The address of that host, and the number of datagrams it sends.
Stranger == "X"
MaxForeign == 2

\* What it sends to the control port of n: bytes that are not JSON, a
\* call_request without ports, a call_request without call_type, a
\* call_accepted without ports, and a call_accepted like those of this
\* program.
ForeignKinds ==
    {"not_json", "request_no_ports", "request_no_call_type", "accepted_no_ports",
     "accepted"}
Omit(message, key) == [k \in DOMAIN message \ {key} |-> message[k]]
ForeignDatagram(n, kind) ==
    CASE kind = "not_json" -> BadControl(Stranger)
      [] kind = "request_no_ports" ->
            Omit(Datagram("call_request", Stranger, "audio", Ports, n), "ports")
      [] kind = "request_no_call_type" ->
            Omit(Datagram("call_request", Stranger, "audio", Ports, n), "call_type")
      [] kind = "accepted_no_ports" ->
            Omit(Datagram("call_accepted", Stranger, None, Ports, n), "ports")
      [] kind = "accepted" -> Datagram("call_accepted", Stranger, None, Ports, n)

foreign_datagram(n, kind) ==
    /\ foreign < MaxForeign
    /\ foreign' = foreign + 1
    /\ control_queue' = _send_control_message(control_queue, n, ForeignDatagram(n, kind))
    /\ control_queue' # control_queue
    /\ UNCHANGED <<sessionVars, deviceVars, control_pc, pending_request, streams_call_type,
                   mediaVars, console, dialed, make_pc, make_args, running>>

\* The call_request at the prompt of n has the fields _accept_call reads.
WellFormedRequest(n) ==
    /\ ~Lacks(pending_request[n], "ports")
    /\ ~Lacks(pending_request[n], "call_type")

\* The user answers y at the prompt for a call_request that has them.
_accept_call_wellformed(n) == WellFormedRequest(n) /\ _accept_call(n)

\* The user answers y at the prompt for a call_request without ports or
\* without call_type.  _accept_call has set in_call, is_caller and
\* call_peer_ip when message['ports'] raises KeyError; with ports and
\* without call_type it has also set call_peer_ports and sent call_accepted
\* when message['call_type'] raises, before _start_media_streams is entered.
\* The exception ends the turn of _control_server in its except clause.
_accept_call_raises(n) ==
    /\ control_pc[n] = "prompt"
    /\ ~WellFormedRequest(n)
    /\ LET message == pending_request[n]
       IN  /\ in_call' = [in_call EXCEPT ![n] = TRUE]
           /\ is_caller' = [is_caller EXCEPT ![n] = FALSE]
           /\ call_peer_ip' = [call_peer_ip EXCEPT ![n] = message.from]
           /\ IF Lacks(message, "ports")
              THEN UNCHANGED <<call_peer_ports, control_queue>>
              ELSE /\ call_peer_ports' = [call_peer_ports EXCEPT ![n] = message.ports]
                   /\ control_queue' = _send_control_message(control_queue, message.from,
                          Datagram("call_accepted", n, None, Ports, message.from))
    /\ pending_request' = [pending_request EXCEPT ![n] = NoMsg]
    /\ control_pc' = [control_pc EXCEPT ![n] = "recv"]
    /\ console' = [console EXCEPT ![n] = "call_control_error"]
    /\ UNCHANGED <<current_call_type, deviceVars, streams_call_type, mediaVars, dialed>>

notEngineVars == <<registryVars, transportVars, framingVars, serviceVars, videoVars,
                   hubVars>>

NextControl ==
    \/ /\ \E p \in Nodes : make_call(Caller, p, "audio")
       /\ UNCHANGED <<notEngineVars, engineVars>>
    \/ /\ \E n \in Nodes, kind \in ForeignKinds : foreign_datagram(n, kind)
       /\ UNCHANGED notEngineVars
    \/ /\ \E n \in Nodes : _control_server(n)
       /\ UNCHANGED <<notEngineVars, engineVars>>
    \/ /\ \E n \in Nodes : _control_server_error(n)
       /\ UNCHANGED <<notEngineVars, engineVars>>
    \/ /\ \E n \in Nodes : _accept_call_wellformed(n)
       /\ UNCHANGED <<notEngineVars, engineVars>>
    \/ /\ \E n \in Nodes : _accept_call_raises(n)
       /\ UNCHANGED <<notEngineVars, engineVars>>
    \/ /\ \E n \in Nodes : _reject_call(n)
       /\ UNCHANGED <<notEngineVars, engineVars>>
    \/ /\ \E n \in Nodes : call_loop_quit(n)
       /\ UNCHANGED <<notEngineVars, engineVars>>

SpecControl == Init /\ [][NextControl]_vars

(***************************************************************************)
(* make_call, statement by statement.                                      *)
(***************************************************************************)
\* The hosts a user can dial: the other hosts of the program and a host
\* that does not answer.
DialTargets(n) == (Nodes \cup {Stranger}) \ {n}

\* make_call is entered and tests in_call (lines 106-110).
make_call_test(n, peer_ip, call_type) ==
    /\ make_pc[n] = "idle"
    /\ IF in_call[n]
       THEN /\ console' = [console EXCEPT ![n] = "already_in_call"]
            /\ UNCHANGED <<make_pc, make_args, dialed>>
       ELSE /\ dialed < MaxDials
            /\ dialed' = dialed + 1
            /\ console' = [console EXCEPT ![n] = "calling"]
            /\ make_pc' = [make_pc EXCEPT ![n] = "is_caller"]
            /\ make_args' = [make_args EXCEPT ![n] =
                                [peer_ip |-> peer_ip, call_type |-> call_type]]
    /\ UNCHANGED <<sessionVars, deviceVars, controlVars, mediaVars, foreign, running>>

\* self.is_caller = True (line 123).
make_call_is_caller(n) ==
    /\ make_pc[n] = "is_caller"
    /\ is_caller' = [is_caller EXCEPT ![n] = TRUE]
    /\ make_pc' = [make_pc EXCEPT ![n] = "call_peer_ip"]
    /\ UNCHANGED <<in_call, call_peer_ip, call_peer_ports, current_call_type, deviceVars,
                   controlVars, mediaVars, console, dialed, foreign, make_args, running>>

\* self.call_peer_ip = peer_ip (line 124).
make_call_peer_ip(n) ==
    /\ make_pc[n] = "call_peer_ip"
    /\ call_peer_ip' = [call_peer_ip EXCEPT ![n] = make_args[n].peer_ip]
    /\ make_pc' = [make_pc EXCEPT ![n] = "current_call_type"]
    /\ UNCHANGED <<in_call, is_caller, call_peer_ports, current_call_type, deviceVars,
                   controlVars, mediaVars, console, dialed, foreign, make_args, running>>

\* self.current_call_type = call_type (line 125).
make_call_call_type(n) ==
    /\ make_pc[n] = "current_call_type"
    /\ current_call_type' = [current_call_type EXCEPT ![n] = make_args[n].call_type]
    /\ make_pc' = [make_pc EXCEPT ![n] = "send"]
    /\ UNCHANGED <<in_call, is_caller, call_peer_ip, call_peer_ports, deviceVars,
                   controlVars, mediaVars, console, dialed, foreign, make_args, running>>

\* self._send_control_message(peer_ip, call_request) (line 126), and return.
make_call_send(n) ==
    /\ make_pc[n] = "send"
    /\ control_queue' = _send_control_message(control_queue, make_args[n].peer_ip,
           Datagram("call_request", n, make_args[n].call_type, Ports,
                    make_args[n].peer_ip))
    /\ make_pc' = [make_pc EXCEPT ![n] = "idle"]
    /\ make_args' = [make_args EXCEPT ![n] = NoArgs]
    /\ UNCHANGED <<sessionVars, deviceVars, control_pc, pending_request, streams_call_type,
                   mediaVars, console, dialed, foreign, running>>

NextRace ==
    \/ /\ \E n \in Nodes : \E p \in DialTargets(n), t \in CallTypes : make_call_test(n, p, t)
       /\ UNCHANGED notEngineVars
    \/ /\ \E n \in Nodes : make_call_is_caller(n)
       /\ UNCHANGED notEngineVars
    \/ /\ \E n \in Nodes : make_call_peer_ip(n)
       /\ UNCHANGED notEngineVars
    \/ /\ \E n \in Nodes : make_call_call_type(n)
       /\ UNCHANGED notEngineVars
    \/ /\ \E n \in Nodes : make_call_send(n)
       /\ UNCHANGED notEngineVars
    \/ /\ \E n \in Nodes : _handle_call_control(n)
       /\ UNCHANGED <<notEngineVars, engineVars>>
    \/ /\ \E n \in Nodes : _accept_call(n)
       /\ UNCHANGED <<notEngineVars, engineVars>>
    \/ /\ \E n \in Nodes : _reject_call(n)
       /\ UNCHANGED <<notEngineVars, engineVars>>
    \/ /\ \E n \in Nodes : call_loop_quit(n)
       /\ UNCHANGED <<notEngineVars, engineVars>>

SpecRace == Init /\ [][NextRace]_vars

(***************************************************************************)
(* One call to its end.                                                    *)
(***************************************************************************)
\* stop_server, called when the program ends: the control loop is told to
\* stop, the control socket is closed, and _end_call releases the devices.
\* No datagram is sent.
stop_server(n) ==
    /\ running[n]
    /\ running' = [running EXCEPT ![n] = FALSE]
    /\ _end_call(n)
    /\ UNCHANGED <<is_caller, call_peer_ip, call_peer_ports, current_call_type, controlVars,
                   mediaVars, dialed, foreign, make_pc, make_args>>

\* The steps of the control thread of n that wait for nothing but a
\* datagram, and the steps of the media threads of n.
ControlStep(n) ==
    /\ running[n]
    /\ _handle_call_control(n)
    /\ UNCHANGED <<notEngineVars, engineVars>>
MediaStep(n) ==
    /\ \E t \in threads[n] :
          \/ _send_audio(n, t)
          \/ \E ret \in BOOLEAN : _send_video(n, t, ret, FALSE)
    /\ UNCHANGED <<notEngineVars, engineVars>>

NextLive ==
    \/ /\ dialed = 0
       /\ \E p \in Nodes, t \in CallTypes : make_call(Caller, p, t)
       /\ UNCHANGED <<notEngineVars, engineVars>>
    \/ \E n \in Nodes : ControlStep(n)
    \/ /\ \E n \in Nodes : running[n] /\ _accept_call(n)
       /\ UNCHANGED <<notEngineVars, engineVars>>
    \/ /\ \E n \in Nodes : running[n] /\ _reject_call(n)
       /\ UNCHANGED <<notEngineVars, engineVars>>
    \/ /\ \E n \in Nodes : running[n] /\ call_loop_quit(n)
       /\ UNCHANGED <<notEngineVars, engineVars>>
    \/ /\ \E n \in Nodes : running[n] /\ call_loop_other(n)
       /\ UNCHANGED <<notEngineVars, engineVars>>
    \/ \E n \in Nodes : MediaStep(n)
    \/ /\ \E n \in Nodes : \E t \in threads[n] : _send_video(n, t, TRUE, TRUE)
       /\ UNCHANGED <<notEngineVars, engineVars>>
    \/ /\ \E n \in Nodes : stop_server(n)
       /\ UNCHANGED notEngineVars

LiveFairness == \A n \in Nodes : WF_vars(ControlStep(n)) /\ WF_vars(MediaStep(n))

SpecLive == Init /\ [][NextLive]_vars /\ LiveFairness

(***************************************************************************)
(* The video path.                                                         *)
(***************************************************************************)
\* chunk_size of _send_video.
ChunkSize == 60000
\* Frames of up to MaxChunks chunks, MaxFrames frames in a behaviour.
MaxChunks == 3
MaxFrames == 2

\* The f-th compressed frame, of len bytes: runs of RunSize bytes of the
\* values 10 * (f - 1), 10 * (f - 1) + 1, ..., so that the chunks of a frame
\* differ, a chunk boundary falls inside a run, no byte value occurs in two
\* frames, and the first frame starts with the bytes of a chunk header's
\* offset 0 and flag 0.
RunSize == 40000
FrameStride == 10
FrameBytes(f, len) ==
    RTake([k \in 1..((len + RunSize - 1) \div RunSize) |->
               Run(FrameStride * (f - 1) + k - 1, RunSize)], len)
\* The sizes of the frames: one byte, around one chunk, around every multiple
\* of a chunk up to MaxChunks chunks.
FrameSizes ==
    {1, ChunkSize - 1}
    \cup {k * ChunkSize : k \in 1..MaxChunks}
    \cup {k * ChunkSize + 1 : k \in 1..(MaxChunks - 1)}

\* struct.pack and struct.unpack with '!I' and '!II?': unsigned 32-bit
\* integers in network byte order, a bool as one byte; unpack of '?' gives
\* True for every byte but 0.
pack_I(v) ==
    <<(v \div 16777216) % 256, (v \div 65536) % 256, (v \div 256) % 256, v % 256>>
unpack_I(q) == q[1] * 16777216 + q[2] * 65536 + q[3] * 256 + q[4]
pack_IIq(a, b, flag) == pack_I(a) \o pack_I(b) \o <<IF flag THEN 1 ELSE 0>>
unpack_IIq(q) ==
    [chunk_size |-> unpack_I(SubSeq(q, 1, 4)), offset |-> unpack_I(SubSeq(q, 5, 8)),
     is_last |-> q[9] # 0]

\* is_last = i + chunk_size > len(frame_data): the flag is not set on the
\* last chunk of a frame that is a whole number of chunks.
is_last_strict(fd, i) == i + ChunkSize > RLen(fd)

\* frame_data[i:i + chunk_size] and is_last of the for loop.
chunk(fd, i) == RTake(RDrop(fd, i), ChunkSize)
is_last(fd, i) == i + ChunkSize >= RLen(fd)

\* video_socket.sendto(d): the datagram is on its way.
sendto(d) ==
    /\ sent' = Append(sent, Norm(d))
    /\ video_net' = Append(video_net, Norm(d))

\* _send_video reads a frame of len bytes (after resize and imencode): a
\* frame of at most chunk_size bytes is sent as one datagram, a larger one
\* enters the for loop.
_send_video_read(len) ==
    /\ video_pc = "read"
    /\ frames_read < MaxFrames
    /\ frames_read' = frames_read + 1
    /\ frame_data' = FrameBytes(frames_read + 1, len)
    /\ chunk_i' = 0
    /\ IF len <= ChunkSize
       THEN /\ sent' = <<Norm(Str(pack_I(len)) \o FrameBytes(frames_read + 1, len))>>
            /\ video_net' = Append(video_net, Norm(Str(pack_I(len))
                                                   \o FrameBytes(frames_read + 1, len)))
            /\ video_pc' = "sleep"
       ELSE /\ sent' = <<>>
            /\ video_pc' = "chunks"
            /\ UNCHANGED video_net
    /\ UNCHANGED <<frame_buffer, decoder_input>>

\* One turn of the for loop: the chunk at i is sent behind its header.
_send_video_chunk ==
    /\ video_pc = "chunks"
    /\ sendto(Str(pack_IIq(RLen(chunk(frame_data, chunk_i)), chunk_i,
                           is_last(frame_data, chunk_i)))
              \o chunk(frame_data, chunk_i))
    /\ chunk_i' = chunk_i + ChunkSize
    /\ video_pc' = IF chunk_i + ChunkSize < RLen(frame_data) THEN "chunks" ELSE "sleep"
    /\ UNCHANGED <<frame_data, frames_read, frame_buffer, decoder_input>>

\* time.sleep(1.0 / video_fps) is over.
_send_video_sleep ==
    /\ video_pc = "sleep"
    /\ video_pc' = "read"
    /\ UNCHANGED <<frame_data, chunk_i, frames_read, sent, video_net, frame_buffer,
                   decoder_input>>

\* sorted(frame_buffer[frame_id].items()) joined: the chunks by increasing
\* offset.
RECURSIVE join_sorted(_)
join_sorted(buf) ==
    IF DOMAIN buf = {} THEN <<>>
    ELSE LET o == CHOOSE x \in DOMAIN buf : \A y \in DOMAIN buf : x <= y
         IN  buf[o] \o join_sorted([y \in DOMAIN buf \ {o} |-> buf[y]])

\* The test of a chunk header with the bound of the single-packet test: a
\* header field that fits the datagram less 4 bytes.
valid_chunk_header_loose(h, len) == h.chunk_size <= len - 4

\* chunk_size <= len(data) - 9: the header read from the first 9 bytes is
\* that of a chunk.
valid_chunk_header(h, len) == h.chunk_size <= len - 9

\* One turn of the loop of _receive_video on the datagram at position k of
\* those on their way: UDP delivers in any order.  A datagram of 9 bytes or
\* more whose first field is at most its length less 9 is a chunk: it is put
\* at its offset, and if it is flagged last the buffer is joined, given to
\* the decoder and deleted.  Anything else of 4 bytes or more whose first
\* field is at most its length less 4 is a whole frame.
_receive_video(k) ==
    /\ k \in 1..Len(video_net)
    /\ video_net' = [j \in 1..(Len(video_net) - 1) |->
                        IF j < k THEN video_net[j] ELSE video_net[j + 1]]
    /\ LET dgram == video_net[k]
           len == RLen(dgram)
           h == unpack_IIq(Expand(RTake(dgram, 9)))
           chunk_data == RTake(RDrop(dgram, 9), h.chunk_size)
           stored == [o \in DOMAIN frame_buffer \cup {h.offset} |->
                         IF o = h.offset THEN Norm(chunk_data) ELSE frame_buffer[o]]
           frame_size == unpack_I(Expand(RTake(dgram, 4)))
       IN  IF len < 4
           THEN UNCHANGED <<frame_buffer, decoder_input>>
           ELSE IF len >= 9 /\ valid_chunk_header(h, len)
           THEN IF h.is_last
                THEN /\ decoder_input' = Append(decoder_input, Norm(join_sorted(stored)))
                     /\ frame_buffer' = <<>>
                ELSE /\ frame_buffer' = stored
                     /\ UNCHANGED decoder_input
           ELSE IF frame_size <= len - 4
           THEN /\ decoder_input' =
                       Append(decoder_input, Norm(RTake(RDrop(dgram, 4), frame_size)))
                /\ UNCHANGED frame_buffer
           ELSE UNCHANGED <<frame_buffer, decoder_input>>
    /\ UNCHANGED <<video_pc, frame_data, chunk_i, frames_read, sent>>

notVideoVars == <<callVars, registryVars, transportVars, framingVars, serviceVars,
                  hubVars, engineVars>>

NextVideo ==
    \/ /\ \E len \in FrameSizes : _send_video_read(len)
       /\ UNCHANGED notVideoVars
    \/ /\ _send_video_chunk
       /\ UNCHANGED notVideoVars
    \/ /\ _send_video_sleep
       /\ UNCHANGED notVideoVars
    \/ /\ \E k \in 1..(MaxChunks * MaxFrames) : _receive_video(k)
       /\ UNCHANGED notVideoVars

SpecVideo == Init /\ [][NextVideo]_vars

(***************************************************************************)
(* The relay hub.                                                          *)
(***************************************************************************)
Hubs == {"WebRTCSignalingServer", "LANServer", "RTCSignalingHandler"}
\* websocket.remote_address[0] of a connection and the username its client
\* registers with.
HubIp == [c \in HubConns |->
             IF c = "c1" \/ (c = "c3" /\ twin) THEN "10.0.0.1"
             ELSE IF c = "c2" THEN "10.0.0.2" ELSE "10.0.0.3"]
HubUsername == [c \in HubConns |->
                   IF c = "c1" \/ (c = "c3" /\ twin) THEN "alice"
                   ELSE IF c = "c2" THEN "bob" ELSE "carol"]

\* The key of a connection in the hub's map: client_ip in self.clients,
\* "ip:port" (the connection itself) in self.peers, the username in
\* self.connections.
ClientKey(c) ==
    IF hub_impl = "WebRTCSignalingServer" THEN HubIp[c]
    ELSE IF hub_impl = "LANServer" THEN c
    ELSE HubUsername[c]
\* What the target field of an envelope for the client of c holds: its ip,
\* or its username with RTCSignalingHandler.
TargetOf(c) ==
    IF hub_impl = "RTCSignalingHandler" THEN HubUsername[c] ELSE HubIp[c]

SignalingTypes == {"offer", "answer", "ice-candidate"}
RegisterEnvelope == [type |-> "register", target |-> None]
TextEnvelopeHub == [type |-> "text", target |-> None]
SignalingEnvelopes == {[type |-> t, target |-> TargetOf(c)] : t \in SignalingTypes, c \in HubConns}
HubEnvelopes == {RegisterEnvelope, TextEnvelopeHub} \cup SignalingEnvelopes

\* The messages a hub sends.
HubMsg(type, sender, target) ==
    [type |-> type, sender |-> sender, target |-> target, peers |-> {}]
PeerListMsg(type, ids) ==
    [type |-> type, sender |-> None, target |-> None, peers |-> ids]

ConnsOf(m) == {m[k] : k \in DOMAIN m}
Put(m, k, c) == [x \in DOMAIN m \cup {k} |-> IF x = k THEN c ELSE m[x]]
Without(m, ks) == [x \in DOMAIN m \ ks |-> m[x]]
\* ws.send(msg) for every connection of cs: it arrives where the connection
\* is whole and raises where it is broken.
Sends(cs, msg) == {[to |-> c, msg |-> msg] : c \in cs \ hub_broken}
Fails(cs) == cs \cap hub_broken

\* WebRTCSignalingServer._broadcast_peer_list on the map m: the list of the
\* keys of usernames to every client; the clients whose send raised are
\* deleted afterwards.
W_broadcast_peer_list(m) ==
    [out |-> Sends(ConnsOf(m), PeerListMsg("peer_list", DOMAIN m)),
     failed |-> Fails(ConnsOf(m)),
     clients |-> Without(m, {k \in DOMAIN m : m[k] \in hub_broken}),
     log |-> {}]
\* LANServer.broadcast_peer_list on the map m: the list is made of
\* available_peers, which only on_peer_discovered fills and nothing calls;
\* the peers whose send raised are popped afterwards.
available_peers == {}
S_broadcast_peer_list(m) ==
    [out |-> Sends(ConnsOf(m), PeerListMsg("peer_list", available_peers)),
     failed |-> Fails(ConnsOf(m)),
     clients |-> Without(m, {k \in DOMAIN m : m[k] \in hub_broken}),
     log |-> IF Fails(ConnsOf(m)) # {} THEN {"error_broadcasting"} ELSE {}]
\* RTCSignalingHandler._broadcast_peer_list on the map m: the usernames under
\* type peer-list; a send that raises is passed over.
R_broadcast_peer_list(m) ==
    [out |-> Sends(ConnsOf(m), PeerListMsg("peer-list", DOMAIN m)),
     failed |-> Fails(ConnsOf(m)),
     clients |-> m,
     log |-> {}]
Quiet(m, log) == [out |-> {}, failed |-> {}, clients |-> m, log |-> log]

\* The step of a handler ends with these outputs.
HubStep(r) ==
    /\ hub_out' = r.out
    /\ hub_failed' = r.failed
    /\ clients' = r.clients
    /\ hub_log' = r.log

\* One of the three servers is started.
start_hub(impl) ==
    /\ hub_impl = None
    /\ hub_impl' = impl
    /\ UNCHANGED <<hub_open, hub_broken, clients, client_id, hub_out, hub_log, hub_failed>>

\* A client connects: the handler of the connection starts.  LANServer puts
\* the connection into self.peers and broadcasts the peer list; the other
\* two wait for the first message.
hub_connect(c) ==
    /\ hub_impl # None
    /\ c \notin hub_open
    /\ hub_open' = hub_open \cup {c}
    /\ HubStep(IF hub_impl = "LANServer"
               THEN S_broadcast_peer_list(Put(clients, c, c))
               ELSE Quiet(clients, IF hub_impl = "WebRTCSignalingServer"
                                   THEN {"new_client_connected"} ELSE {}))
    /\ UNCHANGED <<hub_impl, hub_broken, client_id>>

\* WebRTCSignalingServer.handle_websocket on one message of c.
W_message(c, dat) ==
    IF dat.type = "register"
    THEN LET r == W_broadcast_peer_list(Put(clients, HubIp[c], c))
         IN  [r EXCEPT !.log = {"registered"}]
    ELSE IF dat.type \in SignalingTypes
    THEN IF dat.target # None /\ dat.target \in DOMAIN clients
         THEN IF clients[dat.target] \in hub_broken
              THEN [Quiet(clients, {"error_processing_message"})
                       EXCEPT !.failed = {clients[dat.target]}]
              ELSE [Quiet(clients, {"forwarded"}) EXCEPT !.out =
                       {[to |-> clients[dat.target],
                         msg |-> HubMsg(dat.type, HubIp[c], dat.target)]}]
         ELSE Quiet(clients, {"target_not_connected"})
    ELSE [Quiet(clients, {}) EXCEPT !.out =
             {[to |-> c, msg |-> HubMsg("Echo", None, None)]}]

\* LANServer.process_message on one message of c: sender and timestamp are
\* put into it; a signaling message goes through send_to_peer, which takes
\* the peers whose key begins with the target ip and stops at the first send
\* that succeeds; every other message goes through broadcast_message to all
\* peers but the sender, a send that raises is printed.
S_message(c, dat) ==
    IF dat.type \in SignalingTypes
    THEN LET found == {k \in ConnsOf(clients) : HubIp[k] = dat.target}
         IN  IF found \ hub_broken # {}
             THEN [Quiet(clients, {"sent"}
                            \cup IF Fails(found) # {} THEN {"error_sending"} ELSE {})
                      EXCEPT !.out = {[to |-> CHOOSE k \in found \ hub_broken : TRUE,
                                       msg |-> HubMsg(dat.type, HubIp[c], dat.target)]}]
             ELSE [Quiet(clients, {"target_not_connected"}
                            \cup IF found # {} THEN {"error_sending"} ELSE {})
                      EXCEPT !.failed = found]
    ELSE [out |-> Sends(ConnsOf(clients) \ {c}, HubMsg(dat.type, HubIp[c], None)),
          failed |-> Fails(ConnsOf(clients) \ {c}),
          clients |-> clients,
          log |-> IF Fails(ConnsOf(clients) \ {c}) # {}
                  THEN {"error_broadcasting"} ELSE {}]

\* RTCSignalingHandler._handle_disconnect(id) on the map m: the entry is
\* deleted (self.calls is never filled) and the peer list is broadcast.
R_handle_disconnect(m, id) == R_broadcast_peer_list(Without(m, {id}))

\* RTCSignalingHandler.handle_connection on one message of c: register puts
\* the connection under its username; a signaling message goes through
\* _forward_signaling with sender = client_id, which sends if the target is
\* in self.connections and does nothing otherwise; the loop has no branch
\* for another type.
R_message(c, dat) ==
    IF dat.type = "register"
    THEN R_broadcast_peer_list(Put(clients, HubUsername[c], c))
    ELSE IF dat.type \in SignalingTypes
    THEN IF dat.target \in DOMAIN clients
         THEN IF clients[dat.target] \in hub_broken
              THEN LET r == R_handle_disconnect(clients, dat.target)
                   IN  [r EXCEPT !.failed = @ \cup {clients[dat.target]}]
              ELSE [Quiet(clients, {}) EXCEPT !.out =
                       {[to |-> clients[dat.target],
                         msg |-> HubMsg(dat.type, client_id[c], dat.target)]}]
         ELSE Quiet(clients, {})
    ELSE Quiet(clients, {})

\* The handler of c receives one message.
hub_message(c, dat) ==
    /\ hub_impl # None
    /\ c \in hub_open \ hub_broken
    /\ HubStep(IF hub_impl = "WebRTCSignalingServer" THEN W_message(c, dat)
               ELSE IF hub_impl = "LANServer" THEN S_message(c, dat)
               ELSE R_message(c, dat))
    /\ client_id' = IF hub_impl = "RTCSignalingHandler" /\ dat.type = "register"
                    THEN [client_id EXCEPT ![c] = HubUsername[c]] ELSE client_id
    /\ UNCHANGED <<hub_impl, hub_open, hub_broken>>

\* The connection of c breaks: from now on a send on it raises.
hub_drop(c) ==
    /\ c \in hub_open \ hub_broken
    /\ hub_broken' = hub_broken \cup {c}
    /\ UNCHANGED <<hub_impl, hub_open, clients, client_id, hub_out, hub_log, hub_failed>>

\* The handler of c leaves its loop, the connection closed by the client or
\* broken: the finally clause deletes the entry of c and broadcasts the peer
\* list.
hub_disconnect(c) ==
    /\ hub_impl # None
    /\ c \in hub_open
    /\ hub_open' = hub_open \ {c}
    /\ hub_broken' = hub_broken \ {c}
    /\ client_id' = [client_id EXCEPT ![c] = None]
    /\ LET whole(r) == [r EXCEPT !.out = {d \in @ : d.to # c}]
       IN  HubStep(IF hub_impl = "WebRTCSignalingServer"
                   THEN whole(W_broadcast_peer_list(Without(clients, {HubIp[c]})))
                   ELSE IF hub_impl = "LANServer"
                   THEN whole(S_broadcast_peer_list(Without(clients, {c})))
                   ELSE IF client_id[c] # None
                   THEN whole(R_handle_disconnect(clients, client_id[c]))
                   ELSE Quiet(clients, {}))
    /\ UNCHANGED hub_impl

notRelayVars == <<callVars, registryVars, transportVars, framingVars, serviceVars,
                  videoVars, engineVars>>
notHubVars == <<notRelayVars, hubTaskVars>>

NextHub ==
    \/ /\ \E impl \in Hubs : start_hub(impl)
       /\ UNCHANGED notHubVars
    \/ /\ \E c \in HubConns : hub_connect(c)
       /\ UNCHANGED notHubVars
    \/ /\ \E c \in HubConns, dat \in HubEnvelopes : hub_message(c, dat)
       /\ UNCHANGED notHubVars
    \/ /\ \E c \in HubConns : hub_drop(c)
       /\ UNCHANGED notHubVars
    \/ /\ \E c \in HubConns : hub_disconnect(c)
       /\ UNCHANGED notHubVars

SpecHub == Init /\ [][NextHub]_vars

(***************************************************************************)
(* The relay hub with two clients of one identity: two connections from    *)
(* one host have the same websocket.remote_address[0], and nothing keeps   *)
(* two clients from registering under one username.                        *)
(***************************************************************************)
\* The client of c3 is started on the host of c1 under the username of c1,
\* before it connects.
hub_same_identity ==
    /\ ~twin
    /\ "c3" \notin hub_open
    /\ twin' = TRUE
    /\ UNCHANGED <<hub_impl, hub_open, hub_broken, clients, client_id, hub_out,
                   hub_log, hub_failed, entries, bcast>>

NextHubTwin ==
    \/ /\ \E impl \in Hubs : start_hub(impl)
       /\ UNCHANGED notHubVars
    \/ /\ hub_same_identity
       /\ UNCHANGED notRelayVars
    \/ /\ \E c \in HubConns : hub_connect(c)
       /\ UNCHANGED notHubVars
    \/ /\ \E c \in HubConns, dat \in HubEnvelopes : hub_message(c, dat)
       /\ UNCHANGED notHubVars
    \/ /\ \E c \in HubConns : hub_drop(c)
       /\ UNCHANGED notHubVars
    \/ /\ \E c \in HubConns : hub_disconnect(c)
       /\ UNCHANGED notHubVars

SpecHubTwin == Init /\ [][NextHubTwin]_vars

(***************************************************************************)
(* The relay hub with a broadcast that is suspended on its sends: every    *)
(* await ws.send(...) of _broadcast_peer_list gives the event loop to the  *)
(* handlers of the other connections.  One broadcast at a time is followed *)
(* send by send; the handlers that run in between run as above.            *)
(***************************************************************************)
\* A dict of eight slots holds five entries before it is rebuilt.
MaxEntries == 5
IsKey(k) == k # None
Compact(es) == SelectSeq(es, IsKey)
\* The entries of the dict after m became m2: a deleted key leaves its slot
\* empty, a new key goes to the end.
Slots(es, m, m2) ==
    [j \in 1..Len(es) |-> IF es[j] \in DOMAIN m2 THEN es[j] ELSE None]
        \o (IF DOMAIN m2 \ DOMAIN m = {} THEN <<>>
            ELSE <<CHOOSE k \in DOMAIN m2 \ DOMAIN m : TRUE>>)
\* The slot the dict iterator stops at after slot i, 0 at the end.
NextSlot(es, i) ==
    IF \E j \in (i + 1)..Len(es) : es[j] # None
    THEN CHOOSE j \in (i + 1)..Len(es) :
             es[j] # None /\ \A h \in (i + 1)..(j - 1) : es[h] = None
    ELSE 0
\* next() of the iterator of b over the live dict m: RuntimeError when the
\* size of the dict is not the size it started with, the end after the last
\* slot, RuntimeError when there is an entry more than it started with.
LiveNext(b, m, es) ==
    IF Cardinality(DOMAIN m) # b.used THEN "changed_size"
    ELSE IF NextSlot(es, b.cursor) = 0 THEN "stop"
    ELSE IF b.len = 0 THEN "keys_changed"
    ELSE "yield"
PeerMsg(b) ==
    PeerListMsg(IF hub_impl = "RTCSignalingHandler" THEN "peer-list" ELSE "peer_list",
                b.peers)
\* await ws.send(message) inside the loop, to the connection ws under key k:
\* it arrives when ws is whole; ConnectionClosed is kept in disconnected
\* (WebRTCSignalingServer), in remove (LANServer) or passed over.
SendOne(b, m, k, ws, whole) ==
    [b |-> [b EXCEPT !.tried = @ \cup {ws},
                     !.disconnected = IF ws \in whole \/ hub_impl = "RTCSignalingHandler"
                                      THEN @ ELSE @ \cup {k}],
     clients |-> m,
     out |-> IF ws \in whole THEN {[to |-> ws, msg |-> PeerMsg(b)]} ELSE {},
     failed |-> IF ws \in whole THEN {} ELSE {ws},
     log |-> IF ws \notin whole /\ hub_impl = "LANServer"
             THEN {"error_broadcasting"} ELSE {},
     closes |-> {}]
\* The loop is over: the keys kept are deleted from the map.
BroadcastOutcome(b, raised) == [NoBroadcast EXCEPT !.tried = b.tried, !.raised = raised]
Finish(b, m) ==
    [b |-> BroadcastOutcome(b, FALSE),
     clients |-> Without(m, b.disconnected),
     out |-> {}, failed |-> {}, log |-> {}, closes |-> {}]
\* next() raised RuntimeError.  In the register branch of handle_websocket
\* except Exception prints it and the handler goes on; in handle_connection
\* nothing catches it, the finally clause runs _handle_disconnect(client_id)
\* and the handler ends; out of a finally clause it ends the handler.
Raised(b, m, whole) ==
    LET done == BroadcastOutcome(b, TRUE)
    IN  IF hub_impl = "RTCSignalingHandler" /\ b.origin = "register"
        THEN LET m2 == Without(m, {HubUsername[b.by]})
             IN  [b |-> done, clients |-> m2,
                  out |-> {[to |-> c, msg |-> PeerListMsg("peer-list", DOMAIN m2)] :
                              c \in ConnsOf(m2) \cap (whole \ {b.by})},
                  failed |-> ConnsOf(m2) \ (whole \ {b.by}), log |-> {},
                  closes |-> {b.by}]
        ELSE [b |-> done, clients |-> m, out |-> {}, failed |-> {},
              log |-> IF b.origin = "register"
                      THEN {"error_processing_message"} ELSE {},
              closes |-> {}]
\* The loop of the broadcast b from where it is to its next send: over
\* self.clients.items() and self.connections.values(), the live dict, or
\* over list(self.peers.items()), a copy made when the loop began.
Iterate(b, m, es, whole) ==
    IF hub_impl = "LANServer"
    THEN IF b.todo = <<>> THEN Finish(b, m)
         ELSE SendOne([b EXCEPT !.todo = Tail(@)], m, Head(b.todo), Head(b.todo),
                      whole)
    ELSE LET nxt == LiveNext(b, m, es)
             j == NextSlot(es, b.cursor)
         IN  IF nxt = "stop" THEN Finish(b, m)
             ELSE IF nxt = "yield"
             THEN SendOne([b EXCEPT !.cursor = j, !.len = @ - 1], m, es[j], m[es[j]],
                          whole)
             ELSE Raised(b, m, whole)
\* The handler that runs the broadcast reaches its next await.
BroadcastStep(r) ==
    /\ bcast' = r.b
    /\ clients' = r.clients
    /\ entries' = IF r.b.pc = "idle" THEN Compact(Slots(entries, clients, r.clients))
                  ELSE Slots(entries, clients, r.clients)
    /\ hub_out' = r.out
    /\ hub_failed' = r.failed
    /\ hub_log' = r.log

\* The handler of c comes to a broadcast of the peer list and runs it to its
\* first send: after self.clients[client_ip] = websocket or
\* self.connections[client_id] = websocket of a register envelope, after
\* self.peers[peer_info] = websocket of a new connection, or after the
\* deletion of its entry in the finally clause.
bcast_begin(c, origin) ==
    /\ hub_impl # None
    /\ bcast.pc = "idle"
    /\ origin = "register" => hub_impl # "LANServer" /\ c \in hub_open \ hub_broken
    /\ origin = "connect" => hub_impl = "LANServer" /\ c \notin hub_open
    /\ origin = "disconnect" =>
           c \in hub_open /\ (hub_impl = "RTCSignalingHandler" => client_id[c] # None)
    /\ LET m1 == IF origin = "disconnect" THEN Without(clients, {ClientKey(c)})
                 ELSE Put(clients, ClientKey(c), c)
           es1 == Slots(entries, clients, m1)
           open1 == IF origin = "connect" THEN hub_open \cup {c}
                    ELSE IF origin = "disconnect" THEN hub_open \ {c} ELSE hub_open
           broken1 == IF origin = "disconnect" THEN hub_broken \ {c} ELSE hub_broken
           b0 == [NoBroadcast EXCEPT
                     !.pc = "sending", !.by = c, !.origin = origin,
                     !.peers = IF hub_impl = "LANServer" THEN available_peers
                               ELSE DOMAIN m1,
                     !.started = ConnsOf(m1),
                     !.used = Cardinality(DOMAIN m1),
                     !.len = Cardinality(DOMAIN m1),
                     !.todo = IF hub_impl = "LANServer" THEN Compact(es1) ELSE <<>>]
           r == Iterate(b0, m1, es1, open1 \ broken1)
       IN  /\ Len(es1) <= MaxEntries
           /\ hub_open' = open1
           /\ hub_broken' = broken1
           /\ BroadcastStep([r EXCEPT !.log =
                                IF origin = "register" /\ hub_impl = "WebRTCSignalingServer"
                                THEN @ \cup {"registered"} ELSE @])
    /\ client_id' = IF origin = "disconnect" THEN [client_id EXCEPT ![c] = None]
                    ELSE IF origin = "register" /\ hub_impl = "RTCSignalingHandler"
                    THEN [client_id EXCEPT ![c] = HubUsername[c]]
                    ELSE client_id
    /\ UNCHANGED <<hub_impl, twin>>

\* The send the broadcast was suspended on returns and the loop goes on to
\* its next send, to its end or to the RuntimeError of its iterator.
bcast_resume ==
    /\ bcast.pc = "sending"
    /\ LET r == Iterate(bcast, clients, entries, hub_open \ hub_broken)
       IN  /\ BroadcastStep(r)
           /\ hub_open' = hub_open \ r.closes
           /\ hub_broken' = hub_broken \ r.closes
           /\ client_id' = [c \in HubConns |->
                                IF c \in r.closes THEN None ELSE client_id[c]]
    /\ UNCHANGED <<hub_impl, twin>>

\* The handler of c may run: the handler that is in the broadcast is
\* suspended.
MayRun(c) == bcast.pc = "sending" => c # bcast.by
\* A connection of the broadcast does not come back under its name while
\* the broadcast lasts.
MayConnect(c) == bcast.pc = "sending" => c \notin bcast.started \cup {bcast.by}
\* A step of another handler, which runs to its end.
Meanwhile ==
    /\ entries' = IF bcast.pc = "idle" THEN Compact(Slots(entries, clients, clients'))
                  ELSE Slots(entries, clients, clients')
    /\ Len(entries') <= MaxEntries
    /\ UNCHANGED <<bcast, twin>>

BroadcastOrigins == {"register", "connect", "disconnect"}
NextHubAsync ==
    \/ /\ \E impl \in Hubs : start_hub(impl)
       /\ UNCHANGED notHubVars
    \/ /\ \E c \in HubConns, origin \in BroadcastOrigins : bcast_begin(c, origin)
       /\ UNCHANGED notRelayVars
    \/ /\ bcast_resume
       /\ UNCHANGED notRelayVars
    \/ /\ \E c \in HubConns :
              MayConnect(c) /\ hub_connect(c)
       /\ Meanwhile
       /\ UNCHANGED notRelayVars
    \/ /\ \E c \in HubConns, dat \in {RegisterEnvelope, TextEnvelopeHub} :
              MayRun(c) /\ hub_message(c, dat)
       /\ Meanwhile
       /\ UNCHANGED notRelayVars
    \/ /\ \E c \in HubConns : hub_drop(c)
       /\ UNCHANGED notHubVars
    \/ /\ \E c \in HubConns : MayRun(c) /\ hub_disconnect(c)
       /\ Meanwhile
       /\ UNCHANGED notRelayVars

SpecHubAsync == Init /\ [][NextHubAsync]_vars

(***************************************************************************)
(* Properties                                                              *)
(***************************************************************************)
Kinds(ths) == {t.kind : t \in ths}
Released(n) ==
    /\ ~audio_input[n] /\ ~audio_output[n] /\ ~video_capture[n]
    /\ ~audio_socket[n] /\ ~video_socket[n]
\* A call_ended datagram reaches the control socket of n in this step.
HangupArrives(n) ==
    /\ Len(control_queue'[n]) = Len(control_queue[n]) + 1
    /\ control_queue'[n][Len(control_queue'[n])].type = "call_ended"
\* end_call runs at n in this step: q in the call control loop, or q in the
\* video window of n.
LocalHangup(n) ==
    \/ call_loop_quit(n)
    \/ \E m \in Nodes : \E t \in threads[m] :
          t.peer = n /\ _send_video(m, t, TRUE, TRUE)
\* The control thread of n processes a call_ended in this step.
ProcessesHangup(n) ==
    /\ control_queue[n] # <<>>
    /\ Head(control_queue[n]).type = "call_ended"
    /\ _handle_call_control(n)

\* C1: a call_request that reaches a host while it is InCall is answered
\* with busy and changes nothing: in particular it is never put to the user
\* at the accept prompt.
C1_BusyWhileInCall ==
    \A n \in Nodes :
        control_pc[n] = "prompt" => pending_request[n].at # "InCall"

\* C2: a call_request that reaches a host while it is Calling or Ringing is
\* answered with busy and never prompts for acceptance.
C2_BusyWhileCallingOrRinging ==
    \A n \in Nodes :
        control_pc[n] = "prompt" => pending_request[n].at \notin {"Calling", "Ringing"}

\* C3: a host runs at most one set of media streams: all its live media
\* threads were started by one and the same _start_media_streams.
C3_OneMediaEngine ==
    \A n \in Nodes : \A t1, t2 \in threads[n] : t1.gen = t2.gen

C5_RemoteHangupProcessed ==
    [][\A n \in Nodes :
          (in_call[n] /\ HangupArrives(n)) => control_pc[n] = "recv"
      ]_vars

\* C6: once a call has ended every media thread terminates even if no
\* datagram arrives any more: every live media thread of a host that is not
\* in a call has a step of its own, which ends it.
OwnStep(n, t) ==
    \/ _send_audio(n, t)
    \/ \E ret \in BOOLEAN : _send_video(n, t, ret, FALSE)
C6_MediaThreadsTerminate ==
    \A n \in Nodes :
        ~in_call[n] => \A t \in threads[n] : ENABLED OwnStep(n, t)

\* C7: a session is closed only after its media threads have exited: no
\* media thread (a receive thread holds its bound socket) is alive while the
\* engine is Idle, and while it is InCall only threads of this call are.
C7_ClosedAfterThreadsExit ==
    \A n \in Nodes : \A t \in threads[n] :
        /\ EngineState(n) # "Idle"
        /\ in_call[n] => t.gen = spawned[n]

\* C8: when callee b has accepted an audio call_request of caller a and both
\* are InCall, each runs exactly one audio send thread and one audio receive
\* thread and no video thread.
AudioThreadsOnly(n) ==
    /\ Kinds(threads[n]) = {"send_audio", "recv_audio"}
    /\ Cardinality(threads[n]) = 2
C8_AudioCallEstablished ==
    \A a, b \in Nodes :
        ( /\ a # b
          /\ in_call[b] /\ control_pc[b] = "loop" /\ ~is_caller[b]
          /\ call_peer_ip[b] = a /\ streams_call_type[b] = "audio"
          /\ in_call[a] /\ control_pc[a] = "loop" /\ is_caller[a]
          /\ call_peer_ip[a] = b )
        => (AudioThreadsOnly(a) /\ AudioThreadsOnly(b))

\* C9: make_call invoked while InCall sends no datagram and leaves the call
\* state unchanged.
C9_MakeCallRejectedInCall ==
    [][\A n, p \in Nodes : \A t \in CallTypes :
          (in_call[n] /\ make_call(n, p, t)) =>
              UNCHANGED <<sessionVars, deviceVars, controlVars, mediaVars, dialed>>
      ]_vars
\* make_call was invoked during a call and refused.
C9_Witness ==
    \E n \in Nodes : in_call[n] /\ console[n] = "already_in_call"

\* C10: a call session (the recorded call peer) exists only while the engine
\* is not Idle, and exists whenever it is Calling or InCall.
C10_SessionIffNotIdle ==
    \A n \in Nodes :
        /\ call_peer_ip[n] # None => EngineState(n) # "Idle"
        /\ EngineState(n) \in {"Calling", "InCall"} => call_peer_ip[n] # None

(***************************************************************************)
(* Properties of the peer registry                                         *)
(***************************************************************************)
Known(ip) == ip \in DOMAIN peers
Removed(ip) == ip \in DOMAIN peers /\ ip \notin DOMAIN peers'

\* C11: a peer whose last discovery receipt is more than 30 s old is absent
\* from the active peers: get_active_peers does not return it and it is not
\* in the peers table, which is what is listed, what authorizes inbound
\* connections and what send and call targets are taken from.
C11_StalePeersAbsent ==
    \A ip \in Nodes :
        (Known(ip) /\ now - peers[ip] > PruneAge) =>
            (ip \notin get_active_peers(peers, now) /\ ~Known(ip))

\* C12: the pruning task removes no peer whose last discovery receipt is at
\* most 30 s old, every removal prints the peer-lost line for that peer, and
\* no peer stays in the table more than 40 s after its last receipt.
C12_PruneWindow ==
    /\ [][\A ip \in Nodes :
             Removed(ip) => (now - peers[ip] > PruneAge /\ peer_lost'.ip = ip)
         ]_vars
    /\ [](\A ip \in DOMAIN peers : now - peers[ip] <= PruneAge + PrunePeriod)

\* C13: upsert and prune are atomic with respect to each other: the entry a
\* prune pass removes is the entry it judged stale, not one the listener has
\* put since, and the pruning task never fails.
C13_UpsertPruneAtomic ==
    /\ [][\A ip \in Nodes :
             Removed(ip) =>
                 \E e \in inactive_peers : e.ip = ip /\ e.judged = peers[ip]
         ]_vars
    /\ [](prune_pc # "dead")
(***************************************************************************)
(* Properties of the message transport                                     *)
(***************************************************************************)
Accepted(i) ==
    /\ i \in 1..Len(connections)
    /\ connections[i].state = "pending"
    /\ connections'[i].state # "pending"

\* C14: an inbound connection whose source IP is not in the table of peers
\* when it is accepted is closed with no byte read from it, and nothing is
\* delivered or written at that step; every connection from which a message
\* has been read, every connection a handler serves, had its source IP in
\* the table when it was accepted.
C14_UnknownSourceClosedUnread ==
    /\ [][\A i \in 1..MaxConns :
            (Accepted(i) /\ connections[i].from \notin DOMAIN peers)
            => /\ connections'[i].state = "closed"
               /\ connections'[i].read = "nothing"
               /\ messages' = messages
               /\ files' = files]_vars
    /\ [](\A i \in 1..Len(connections) :
            (connections[i].state = "handling" \/ connections[i].read # "nothing")
            => connections[i].known)

\* A connection from an unknown address has been closed unread, and a file
\* from a known peer has been written.
C14_Witness ==
    /\ \E i \in 1..Len(connections) :
          /\ connections[i].state = "closed"
          /\ connections[i].read = "nothing"
          /\ ~connections[i].known
    /\ \E i \in 1..Len(connections) :
          /\ connections[i].read = "message"
          /\ connections[i].message.type = "file"
          /\ connections[i].message.filename \in DOMAIN files

\* C19: once the handler has read a text envelope on a connection from a
\* known peer, the message sink holds a message with the content and the
\* username of the envelope and the address of the sender.
C19_TextRecorded ==
    \A i \in 1..Len(connections) :
        (connections[i].read = "message" /\ connections[i].message.type = "text")
        => \E k \in 1..Len(messages) :
               /\ messages[k].content = connections[i].message.content
               /\ messages[k].sender_username = connections[i].message.username
               /\ messages[k].sender_ip = connections[i].from

\* C15: every connection or datagram a send or call operation has opened or
\* sent went to an address that was in the table of peers when the
\* operation ran.
C15_SendsOnlyToRegistered ==
    \A o \in outbox : o.registered

\* What the caller of a send operation gets from it: the value returned and
\* the line printed.
Outcome(r) == <<r.returned, r.printed>>
SendOps == {"send_message", "send_file_to_peer", "LANClient_send_message"}
SuccessOf(r) ==
    IF r.op = "LANClient_send_message" THEN LANClient_result(r.to, "ok")
    ELSE send_attempt(r.op, r.to, "ok")

\* C20: a send operation whose connect or send failed (refused, timed out)
\* has not raised, has reported a failure, and what its caller gets from it
\* differs from what the caller gets from the same operation when it
\* succeeds.
C20_FailedSendReported ==
    (send_result.op \in SendOps /\ send_result.net \in NetOutcomes \ {"ok"})
    => /\ ~send_result.raised
       /\ send_result.printed = "failed_to_send"
       /\ Outcome(send_result) # Outcome(SuccessOf(send_result))

\* A send_message to a registered peer has timed out.
C20_Witness ==
    /\ send_result.op = "send_message"
    /\ send_result.net = "timeout"
    /\ send_result.to \in DOMAIN peers

(***************************************************************************)
(* Properties of the framing                                               *)
(***************************************************************************)
\* C16: for every declared length and every split of the stream over the
\* calls of recv, _recv_all returns only when the stream has at least length
\* bytes, and then returns exactly its first length bytes and leaves the
\* rest unread; it raises EOFError only when the stream ends before length
\* bytes; it never stops in the loop, so a stream that ends early ends in
\* EOFError.
C16_RecvAllExact ==
    /\ recv_pc = "returned" =>
          /\ Len(stream) >= length
          /\ Len(data) = length
          /\ data = SubSeq(stream, 1, length)
          /\ sock = SubSeq(stream, length + 1, Len(stream))
    /\ recv_pc = "EOFError" => Len(stream) < length /\ data = stream
    /\ recv_pc = "loop" =>
          /\ ENABLED ((\E k \in 1..(MaxStream + 1) : _recv_all_recv(k)) \/ _recv_all_return)
          /\ data \o sock = stream
    /\ (recv_pc # "loop") =>
          LET r == _recv_all(Str(stream), length)
          IN  /\ (recv_pc = "EOFError") = (r.raised = "EOFError")
              /\ recv_pc = "returned" => Str(data) = r.data /\ Str(sock) = r.rest

\* A length of at least two bytes has been returned after more than one
\* call of recv, from a stream that goes on after it.
C16_Witness ==
    /\ recv_pc = "returned"
    /\ length >= 2
    /\ recv_calls >= 2
    /\ Len(stream) > length

\* C18: the header _send_with_length writes is exactly HeaderWidth decimal
\* digits whose value is the number of bytes of the payload, and the length
\* the receiver gets from the first HeaderWidth bytes of the frame is the
\* number of bytes of the payload.
C18_HeaderEightDigits ==
    frame_pc \in {"receive", "done"} =>
        /\ Len(frame.length_header) = HeaderWidth
        /\ IsDigits(frame.length_header)
        /\ int(frame.length_header) = RLen(frame.json_bytes)
        /\ int(Expand(_recv_all(Wire(frame), HeaderWidth).data)) = RLen(frame.json_bytes)

\* C17: what the receiver decodes from the frame of a text or file envelope
\* has the type, the username, the content and the filename of the envelope
\* the sender built, and for a file the decoded bytes are the bytes of the
\* file.
C17_EnvelopeRoundTrip ==
    frame_pc = "done" =>
        /\ decoded.error = None
        /\ Same(decoded.type, Get(envelope, TypeKey, <<>>))
        /\ Same(decoded.username, Get(envelope, UsernameKey, <<>>))
        /\ Same(decoded.content, Get(envelope, ContentKey, <<>>))
        /\ Same(decoded.filename, Get(envelope, FilenameKey, <<>>))
        /\ request.op = "send_file_to_peer" => Same(decoded.file_data, request.body)


\* The three services in their loops: the listener has not left its loop;
\* the accept loop takes the next pending connection and a handler thread
\* that was started runs to its end; the control server takes the datagram
\* at the head of its queue, well formed or not.
ListenerServes == listen_pc = "recv"
AcceptLoopServes ==
    \A i \in 1..Len(connections) :
        /\ (/\ connections[i].state = "pending"
            /\ \A j \in 1..(i - 1) : connections[j].state # "pending")
               => ENABLED _start_server(i)
        /\ connections[i].state = "handling" => ENABLED _handle_client(i)
ControlServerServes ==
    \A n \in Nodes :
        (control_pc[n] = "recv" /\ control_queue[n] # <<>>)
            => ENABLED (_control_server(n) \/ _control_server_error(n))

\* C21: whatever datagrams and connections have been received, malformed
\* ones included, the discovery listener, the TCP accept loop and the call
\* control server are still in their loops and process the next input.
C21_ServicesSurviveBadInput ==
    /\ ListenerServes
    /\ AcceptLoopServes
    /\ ControlServerServes

\* C22: the handler of a connection whose envelope is of an unknown type or
\* whose payload is malformed changes neither the recorded messages nor the
\* stored files.
C22_MalformedDropped ==
    [][\A i \in 1..MaxConns :
          (_handle_client(i) /\ connections[i].message.kind \notin WellFormedKinds)
              => UNCHANGED <<messages, files>>]_vars


\* The connections whose file the handler has written.
FilesReceived ==
    {i \in 1..Len(connections) :
        /\ connections[i].state = "closed" /\ connections[i].read = "message"
        /\ connections[i].message.error = None
        /\ connections[i].message.type = "file"}

\* C29: every file envelope that was handled has a stored file of its own:
\* there are as many stored files as handled file envelopes, and the bytes
\* of each are those of one stored file.
C29_SameNameBothStored ==
    /\ Cardinality(DOMAIN files) = Cardinality(FilesReceived)
    /\ \A i \in FilesReceived :
           \E f \in DOMAIN files : files[f] = connections[i].message.file_data


\* The step is a call setup at n, by the answer of the callee or by the
\* call_accepted the caller receives, in which the device fault of the call
\* cannot be opened.
Attempted(fault, call_type) == fault = "video_capture" => call_type = "both"
SetupWithFault(n, fault) ==
    \/ /\ control_pc[n] = "prompt"
       /\ Attempted(fault, pending_request[n].call_type)
       /\ _start_media_streams(n, pending_request[n].from,
                               pending_request[n].call_type, fault)
    \/ /\ control_pc[n] = "recv" /\ control_queue[n] # <<>>
       /\ Head(control_queue[n]).type = "call_accepted"
       /\ Attempted(fault, current_call_type[n])
       /\ _start_media_streams(n, Head(control_queue[n]).from,
                               current_call_type[n], fault)

\* C24: a call setup in which a capture or playback device cannot be opened
\* leaves the host not in a call, with no media device and no media socket
\* open.
C24_DeviceFailureAborts ==
    [][\A n \in Nodes, fault \in Faults \ {"none"} :
          SetupWithFault(n, fault)
              => /\ ~in_call'[n]
                 /\ ~audio_input'[n] /\ ~audio_output'[n] /\ ~video_capture'[n]
                 /\ ~audio_socket'[n] /\ ~video_socket'[n]]_vars


\* What a datagram of sent carries, read as the receiver reads it.
ChunkHeader(d) == unpack_IIq(Expand(RTake(d, 9)))
ChunkPayload(d) == RDrop(d, 9)
RECURSIVE Payloads(_)
Payloads(ds) == IF ds = <<>> THEN <<>> ELSE ChunkPayload(Head(ds)) \o Payloads(Tail(ds))

\* C30: once _send_video has sent a frame, a frame of more than ChunkSize
\* bytes went out as chunks whose offsets start at 0 and each continue where
\* the chunk before ended, whose payloads in that order are the frame, whose
\* header length is the number of bytes of the payload, none empty or longer
\* than ChunkSize, and of which the last one sent, and only that one, is
\* flagged last; a frame of at most ChunkSize bytes went out as one
\* datagram, its four-byte length followed by the frame.
C30_ChunksPartitionFrame ==
    video_pc = "sleep" =>
        IF RLen(frame_data) > ChunkSize
        THEN /\ Len(sent) >= 2
             /\ ChunkHeader(sent[1]).offset = 0
             /\ \A j \in 1..Len(sent) :
                    /\ ChunkHeader(sent[j]).chunk_size = RLen(ChunkPayload(sent[j]))
                    /\ ChunkHeader(sent[j]).chunk_size \in 1..ChunkSize
                    /\ ChunkHeader(sent[j]).is_last <=> (j = Len(sent))
                    /\ j > 1 => ChunkHeader(sent[j]).offset =
                                    ChunkHeader(sent[j - 1]).offset
                                    + ChunkHeader(sent[j - 1]).chunk_size
             /\ Same(Payloads(sent), frame_data)
        ELSE /\ Len(sent) = 1
             /\ Expand(RTake(sent[1], 4)) = pack_I(RLen(frame_data))
             /\ Same(RDrop(sent[1], 4), frame_data)

\* A frame of MaxChunks whole chunks has been sent in MaxChunks datagrams.
C30_Witness ==
    /\ video_pc = "sleep"
    /\ RLen(frame_data) = MaxChunks * ChunkSize
    /\ Len(sent) = MaxChunks

\* C23: once every chunk of a frame that was split has been delivered, in
\* whatever order, the decoder has been given one byte string, the frame.
C23_AnyOrderReassembles ==
    (video_pc = "sleep" /\ RLen(frame_data) > ChunkSize /\ video_net = <<>>
     /\ frames_read = 1)
        => /\ Len(decoder_input) = 1
           /\ Same(decoder_input[1], frame_data)


\* The connection the hub's map holds for the target of an envelope, None if
\* it holds none, and the identities of the clients in the map as a peer
\* list names them.
TargetConn(target) ==
    IF hub_impl = "LANServer"
    THEN IF \E k \in ConnsOf(clients) : HubIp[k] = target
         THEN CHOOSE k \in ConnsOf(clients) : HubIp[k] = target
         ELSE None
    ELSE IF target \in DOMAIN clients THEN clients[target] ELSE None
RegisteredIds ==
    IF hub_impl = "LANServer" THEN {HubIp[k] : k \in ConnsOf(clients)} ELSE DOMAIN clients
Connected == ConnsOf(clients) \ hub_broken
HubsWithBroadcast == {"WebRTCSignalingServer", "LANServer"}

\* C25: the handler of an offer, answer or ice-candidate envelope sends, when
\* the target is in the hub's map with a whole connection, exactly one
\* message, to the target's connection, which is the envelope with the
\* identity of the sender in it; when the target is not in the map it sends
\* nothing and reports that the target is not connected.
C25_SignalingToTargetOnly ==
    [][\A c \in HubConns, dat \in SignalingEnvelopes :
          hub_message(c, dat)
              => /\ (TargetConn(dat.target) # None /\ TargetConn(dat.target) \notin hub_broken)
                        => hub_out' = {[to |-> TargetConn(dat.target),
                                        msg |-> HubMsg(dat.type, TargetOf(c), dat.target)]}
                 /\ TargetConn(dat.target) = None
                        => /\ hub_out' = {}
                           /\ "target_not_connected" \in hub_log']_vars

\* C26: the handler of a register envelope and the handler of a disconnect
\* send to every client that is connected afterwards a peer_list whose
\* entries are the clients registered afterwards.
C26_PeerListOnJoinAndLeave ==
    [][\A c \in HubConns :
          (/\ hub_impl \in HubsWithBroadcast
           /\ hub_message(c, RegisterEnvelope) \/ hub_disconnect(c))
              => \A k \in Connected' :
                     [to |-> k, msg |-> PeerListMsg("peer_list", RegisteredIds')]
                         \in hub_out']_vars

\* The step is a broadcast of the hub run for c: of the peer list on a
\* connect, a register or a disconnect, or of an envelope that is not a
\* signaling envelope.
HubBroadcast(c) ==
    \/ hub_connect(c)
    \/ hub_disconnect(c)
    \/ \E dat \in HubEnvelopes \ SignalingEnvelopes : hub_message(c, dat)

\* C27: after a broadcast in which a send to a client raised, that client is
\* no longer in the hub's map and every client still connected has been sent
\* a peer_list of the clients registered now.
C27_FailingClientRemoved ==
    [][\A c \in HubConns :
          (hub_impl \in HubsWithBroadcast /\ HubBroadcast(c) /\ hub_failed' # {})
              => /\ hub_failed' \cap ConnsOf(clients') = {}
                 /\ \A k \in Connected' :
                        [to |-> k, msg |-> PeerListMsg("peer_list", RegisteredIds')]
                            \in hub_out']_vars

\* C28: the handler of an envelope that is neither a signaling envelope nor
\* register sends it to every connected client but the sender, and to
\* nobody else.
C28_OthersToAllButSender ==
    [][\A c \in HubConns :
          (hub_impl \in HubsWithBroadcast /\ hub_message(c, TextEnvelopeHub))
              => /\ {d.to : d \in hub_out'} = Connected \ {c}
                 /\ \A d \in hub_out' : d.msg.type = "text"]_vars


\* What _receive_video does with a datagram it takes for a single-packet
\* frame, and with one it takes for a chunk.
AsSingle(d) ==
    /\ frame_buffer' = frame_buffer
    /\ decoder_input' = Append(decoder_input, Norm(RDrop(d, 4)))
AsChunk(d) ==
    /\ RLen(d) >= 9
    /\ LET h == ChunkHeader(d)
           buf == [o \in DOMAIN frame_buffer \cup {h.offset} |->
                      IF o = h.offset THEN Norm(ChunkPayload(d)) ELSE frame_buffer[o]]
       IN  IF h.is_last
           THEN /\ frame_buffer' = <<>>
                /\ decoder_input' = Append(decoder_input, Norm(join_sorted(buf)))
           ELSE /\ frame_buffer' = buf
                /\ decoder_input' = decoder_input

\* C31: a turn of _receive_video on a datagram of the frame _send_video is
\* sending or has just sent takes it for what it was sent as: the datagram
\* of a frame of at most ChunkSize bytes for a single-packet frame and not
\* for a chunk, a datagram of a larger frame for a chunk and not for a
\* single-packet frame.
C31_DatagramsClassified ==
    [][\A k \in 1..(MaxChunks * MaxFrames) :
          (/\ _receive_video(k)
           /\ \E j \in 1..Len(sent) : sent[j] = video_net[k])
              => IF RLen(frame_data) <= ChunkSize
                 THEN AsSingle(video_net[k]) /\ ~AsChunk(video_net[k])
                 ELSE AsChunk(video_net[k]) /\ ~AsSingle(video_net[k])]_vars

\* A single-packet frame of ChunkSize bytes that starts like a chunk header
\* has been given to the decoder, and so has a frame reassembled from
\* MaxChunks chunks.
C31_Witness ==
    \E i, j \in 1..Len(decoder_input) :
        /\ Same(decoder_input[i], FrameBytes(1, ChunkSize))
        /\ Same(decoder_input[j], FrameBytes(2, MaxChunks * ChunkSize))

\* The frame a byte value belongs to.
FrameOfByte(v) == v \div FrameStride + 1

\* C38: every byte string given to the decoder is made of bytes of one
\* frame.
C38_OneFramePerDecode ==
    \A i \in 1..Len(decoder_input) :
        \A a, b \in 1..Len(decoder_input[i]) :
            FrameOfByte(decoder_input[i][a].ch) = FrameOfByte(decoder_input[i][b].ch)


\* C35: make_call invoked while an earlier call_request of this host is
\* unanswered (Calling) or while an incoming call waits at the accept prompt
\* (Ringing) sends nothing and leaves the recorded call peer, role and call
\* kind as they were.
C35_MakeCallOnlyFromIdle ==
    [][\A n, p \in Nodes : \A t \in CallTypes :
          (EngineState(n) \in {"Calling", "Ringing"} /\ make_call(n, p, t))
              => UNCHANGED <<control_queue, call_peer_ip, is_caller, current_call_type,
                             dialed>>
      ]_vars

\* The media streams of n include the video threads.
RunsVideo(n) == streams_call_type[n] = "both"

\* C40: when callee b has accepted a call_request of caller a, a has
\* processed the call_accepted, and both are in the call, a runs the video
\* threads if and only if b does.
C40_SameKindBothEnds ==
    \A a, b \in Nodes :
        ( /\ a # b
          /\ in_call[a] /\ control_pc[a] = "loop" /\ is_caller[a] /\ call_peer_ip[a] = b
          /\ in_call[b] /\ control_pc[b] = "loop" /\ ~is_caller[b] /\ call_peer_ip[b] = a )
        => (RunsVideo(a) <=> RunsVideo(b))


\* The control thread of n handles a datagram of a foreign host that is not
\* JSON or lacks a field, or the user's answer to a call_request that lacks
\* one.
ProcessesMalformed(n) ==
    \/ _control_server_error(n)
    \/ /\ control_queue[n] # <<>>
       /\ Head(control_queue[n]).type = "call_request"
       /\ \/ Lacks(Head(control_queue[n]), "ports")
          \/ Lacks(Head(control_queue[n]), "call_type")
       /\ _control_server(n)
    \/ _accept_call_raises(n)
    \/ ~WellFormedRequest(n) /\ _reject_call(n)

\* C33: handling a malformed control datagram leaves the call state, the
\* devices and the media threads as they were, and the host is never in a
\* call (in_call true) without its control thread being in the call loop of
\* media streams it started.
C33_MalformedControlDropped ==
    [][\A n \in Nodes :
          ProcessesMalformed(n)
              => /\ UNCHANGED <<sessionVars, deviceVars, mediaVars>>
                 /\ in_call'[n] => control_pc'[n] = "loop"]_vars

\* What the handler's state says about n being Calling p: the last
\* make_call of n was to p and n has not accepted a call or been in one
\* since.
RecordedCalling(n, p) == ~in_call[n] /\ is_caller[n] /\ call_peer_ip[n] = p

\* C34: the control thread's handling of a call_accepted from an address
\* that n is not recorded as calling starts no media and changes neither
\* the call state nor the devices.
C34_AcceptedOnlyWhenCalling ==
    [][\A n \in Nodes :
          (/\ control_queue[n] # <<>>
           /\ Head(control_queue[n]).type = "call_accepted"
           /\ ~RecordedCalling(n, Head(control_queue[n]).from)
           /\ _control_server(n))
              => UNCHANGED <<sessionVars, deviceVars, mediaVars>>]_vars


\* C36: while a host is and stays InCall, the call whose media streams are
\* running, the role and the call peer it has recorded do not change,
\* whatever the user interface thread does meanwhile.
C36_SessionStableInCall ==
    [][\A n \in Nodes :
          (in_call[n] /\ control_pc[n] = "loop" /\ in_call'[n])
              => /\ is_caller'[n] = is_caller[n]
                 /\ call_peer_ip'[n] = call_peer_ip[n]]_vars


\* Host a has left the call with b: it is not in a call and the last thing
\* it printed is "Call ended".
Left(a, b) == ~in_call[a] /\ console[a] = "call_ended" /\ call_peer_ip[a] = b

\* C37: when one host of a call has left it and the other is still InCall,
\* the other eventually leaves InCall.
C37_PeerEventuallyLeaves ==
    \A a, b \in Nodes :
        (a # b /\ Left(a, b) /\ in_call[b] /\ call_peer_ip[b] = a) ~> ~in_call[b]


\* C39: a registered hub client stays in the hub's connection map until its
\* own connection closes: while its connection is open and whole, no step of
\* the hub (the registration or the disconnection of another connection of
\* the same IP or username among them) replaces or removes its entry.
Registered(c) == c \in hub_open \ hub_broken /\ c \in ConnsOf(clients)
C39_StaysUntilOwnClose ==
    [][\A c \in HubConns :
          (Registered(c) /\ c \in hub_open' \ hub_broken')
              => c \in ConnsOf(clients')]_vars


\* C32: a broadcast of the hub iterates a snapshot of the connection set: when
\* a broadcast that was suspended on a send comes to its end, it has not
\* failed, and every client that was connected when it started and is still
\* connected has been sent the message.
C32_BroadcastOverSnapshot ==
    [][(bcast.pc = "sending" /\ bcast'.pc = "idle")
          => /\ ~bcast'.raised
             /\ \A c \in bcast.started :
                    c \in hub_open' \ hub_broken' => c \in bcast'.tried]_vars

====
